---------------------------- MODULE Spec2Model ----------------------------
(***************************************************************************)
(* A model of c3s-eqc-data-checker: the command line run (cli.py), the     *)
(* dispatcher ConfigChecker and the check operations of Checker (check.py),*)
(* with the historical comparison rule of checker.py.                      *)
(*                                                                         *)
(* Python values are tagged tuples: <<"str", s>>, <<"int", n>>, None.  A   *)
(* dict is a function (the empty dict is <<>>), a set is a set, a list a   *)
(* sequence.  A call that raises is recorded in the variable raised.       *)
(***************************************************************************)
EXTENDS Integers, Sequences, FiniteSets, TLC

VARIABLES
    config,     \* ConfigChecker.config: top-level keys and the files_format value
    paths,      \* what glob.glob(files_pattern) yields for Checker.paths
    files,      \* path -> what the backend reads from that file
    pc,         \* position of data_checker: "idle", "start", "loop", "exit", "crashed"
    i,          \* index in available_checks of the check the loop is at
    counter,    \* data_checker's counter
    summary,    \* data_checker's per-check summary lines <<check_name, outcome>>
    trace,      \* check_name -> what configchecker.check(check_name) did in this run
    exit_code,  \* the code of typer.Exit, -1 before the exit
    call,       \* the last operation called and its arguments
    errors,     \* the value the last operation returned
    raised      \* TRUE when the last operation raised instead of returning

vars == <<config, paths, files, pc, i, counter, summary, trace, exit_code,
          call, errors, raised>>

-----------------------------------------------------------------------------
(* Bounds of the model. *)

\* Most check sections a configuration document holds.
MaxSections == 2
\* Most files the glob pattern matches.
MaxPaths == 2
\* The last timestamp a file may hold, timestamps being 0..MaxTime.
MaxTime == 2
\* The checks called on one Checker while its files change.
MaxChecks == 4

-----------------------------------------------------------------------------
(* Python values. *)

None == <<"none">>
PyStr(s) == <<"str", s>>
PyInt(n) == <<"int", n>>
PyBool(b) == <<"bool", b>>
\* The float whole.frac, frac a single digit.
PyFloat(whole, frac) == <<"float", whole, frac>>
EmptyDict == <<>>
\* A dict held as a value beside None and scalars.
PyDict(f) == <<"dict", f>>

\* The files a pattern can match, in the order glob lists them.
AllPaths == <<"f1", "f2", "f3">>
files_pattern == "f*"

Range(s) == {s[k] : k \in DOMAIN s}

\* The sequences of distinct paths glob can return: a prefix of AllPaths.
PathLists(n) == {SubSeq(AllPaths, 1, k) : k \in 0..n}

-----------------------------------------------------------------------------
(* ConfigChecker.check: the dispatcher's deduplication. *)

\* A call outcome: the method raised (errors is then unused), or returned
\* the dict errors.
Raise == [raised |-> TRUE, errors |-> <<>>]
Return(e) == [raised |-> FALSE, errors |-> e]

\* all(value == first_value for value in values), values following
\* first_value in the dict's order (the order of the matched paths).
RECURSIVE AllEqualFirst(_, _, _)
AllEqualFirst(errs, keys, first_value) ==
    IF keys = <<>> THEN TRUE
    ELSE /\ errs[Head(keys)] = first_value
         /\ AllEqualFirst(errs, Tail(keys), first_value)

\* Mutation: the collapse does not compare the values.
Dedup_NoCompare(errs, ps) ==
    IF DOMAIN errs = Range(ps)
    THEN [k \in {files_pattern} |-> errs[Head(ps)]]
    ELSE errs

\* check.py:492-499, given the report of the method and checker.paths.
Dedup(errs, ps) ==
    IF DOMAIN errs = Range(ps)
    THEN LET first_value == errs[Head(ps)]
         IN  IF AllEqualFirst(errs, Tail(ps), first_value)
             THEN [k \in {files_pattern} |-> first_value]
             ELSE errs
    ELSE errs

\* Mutation: the dispatcher swallows the exception of the method and
\* returns an empty report.
ConfigChecker_check_Swallow(outcome, ps) ==
    IF outcome.raised THEN Return(EmptyDict) ELSE Return(Dedup(outcome.errors, ps))

\* check.py:479-499: an exception of the method propagates (no try).
ConfigChecker_check(outcome, ps) ==
    IF outcome.raised THEN Raise ELSE Return(Dedup(outcome.errors, ps))

-----------------------------------------------------------------------------
(* The command line run: cli.py data_checker. *)

\* dir(cls): the names of the attributes of Checker defined in check.py:77-464,
\* each as the sequence of its characters.
dir_Checker ==
    { <<"c", "h", "e", "c", "k", "_", "g", "l", "o", "b", "a", "l", "_", "a",
        "t", "t", "r", "i", "b", "u", "t", "e", "s">>,
      <<"a", "v", "a", "i", "l", "a", "b", "l", "e", "_", "c", "h", "e", "c",
        "k", "s">>,
      <<"c", "h", "e", "c", "k", "_", "c", "o", "m", "p", "l", "e", "t", "e",
        "n", "e", "s", "s">>,
      <<"c", "h", "e", "c", "k", "_", "v", "e", "r", "t", "i", "c", "a", "l",
        "_", "r", "e", "s", "o", "l", "u", "t", "i", "o", "n">>,
      <<"c", "h", "e", "c", "k", "_", "t", "e", "m", "p", "o", "r", "a", "l",
        "_", "r", "e", "s", "o", "l", "u", "t", "i", "o", "n">>,
      <<"p", "a", "t", "h", "s">>,
      <<"_", "c", "h", "e", "c", "k", "_", "v", "a", "r", "i", "a", "b", "l",
        "e", "_", "a", "t", "t", "r", "s", "_", "o", "r", "_", "s", "i", "z",
        "e", "s">>,
      <<"c", "h", "e", "c", "k", "_", "v", "a", "r", "i", "a", "b", "l", "e",
        "_", "a", "t", "t", "r", "i", "b", "u", "t", "e", "s">>,
      <<"_", "c", "h", "e", "c", "k", "_", "g", "l", "o", "b", "a", "l", "_",
        "a", "t", "t", "r", "s", "_", "o", "r", "_", "s", "i", "z", "e", "s">>,
      <<"_", "c", "h", "e", "c", "k", "_", "s", "p", "a", "t", "i", "a", "l",
        "_", "r", "e", "s", "o", "l", "u", "t", "i", "o", "n">>,
      <<"c", "h", "e", "c", "k", "_", "v", "a", "r", "i", "a", "b", "l", "e",
        "_", "d", "i", "m", "e", "n", "s", "i", "o", "n", "s">>,
      <<"c", "h", "e", "c", "k", "_", "h", "o", "r", "i", "z", "o", "n", "t",
        "a", "l", "_", "r", "e", "s", "o", "l", "u", "t", "i", "o", "n">>,
      <<"p", "a", "t", "h", "s", "_", "i", "t", "e", "r", "a", "t", "o", "r">>,
      <<"c", "h", "e", "c", "k", "_", "g", "l", "o", "b", "a", "l", "_", "d",
        "i", "m", "e", "n", "s", "i", "o", "n", "s">>,
      <<"c", "h", "e", "c", "k", "_", "c", "f", "_", "c", "o", "m", "p", "l",
        "i", "a", "n", "c", "e">>,
      <<"b", "a", "c", "k", "e", "n", "d">>,
      <<"c", "h", "e", "c", "k", "_", "f", "o", "r", "m", "a", "t">> }

\* The characters of the names in the order of their code points.
Alphabet ==
    <<"_", "a", "b", "c", "d", "e", "f", "g", "h", "i", "j", "k", "l", "m",
      "n", "o", "p", "q", "r", "s", "t", "u", "v", "w", "x", "y", "z">>
CodePoint(c) == CHOOSE k \in DOMAIN Alphabet : Alphabet[k] = c

\* a < b for two strings, as sorted compares them.
RECURSIVE StrLess(_, _)
StrLess(a, b) ==
    IF b = <<>> THEN FALSE
    ELSE IF a = <<>> THEN TRUE
    ELSE IF Head(a) # Head(b) THEN CodePoint(Head(a)) < CodePoint(Head(b))
    ELSE StrLess(Tail(a), Tail(b))

\* The string of a sequence of characters.
RECURSIVE Text(_)
Text(chars) == IF chars = <<>> THEN "" ELSE Head(chars) \o Text(Tail(chars))

check_prefix == <<"c", "h", "e", "c", "k", "_">>

\* name.startswith("check_") (check.py:97).
IsCheck(name) ==
    /\ Len(check_prefix) <= Len(name)
    /\ SubSeq(name, 1, Len(check_prefix)) = check_prefix

\* name.split("check_", 1)[-1] of a name that starts with "check_"
\* (check.py:95).
SplitCheck(name) == SubSeq(name, Len(check_prefix) + 1, Len(name))

\* sorted(...) of a set of strings: the least first.
RECURSIVE Sorted(_)
Sorted(S) ==
    IF S = {} THEN <<>>
    ELSE LET least == CHOOSE a \in S : \A b \in S \ {a} : StrLess(a, b)
         IN  <<least>> \o Sorted(S \ {least})

\* Mutation: the names are listed without being sorted, the last first.
RECURSIVE Unsorted(_)
Unsorted(S) ==
    IF S = {} THEN <<>>
    ELSE LET last == CHOOSE a \in S : \A b \in S \ {a} : StrLess(b, a)
         IN  <<last>> \o Unsorted(S \ {last})

available_check_names_Unsorted ==
    Unsorted({SplitCheck(name) : name \in {n \in dir_Checker : IsCheck(n)}})

\* check.py:92-98, the names as sequences of characters.
available_check_names ==
    Sorted({SplitCheck(name) : name \in {n \in dir_Checker : IsCheck(n)}})

\* check.py:92-98: Checker.available_checks().
available_checks ==
    [k \in DOMAIN available_check_names |-> Text(available_check_names[k])]

NChecks == Len(available_checks)

\* The arguments of Checker (check.py:475): both are read from the config.
RequiredKeys == {"files_pattern", "files_format"}

\* Top-level keys of a configuration document that name no check.
OtherKeys == {"other"}

\* The values of files_format in a document; only the first two have a backend.
FormatTags == {"GRIB", "NETCDF", "ZARR"}

\* check.py:100-112: Checker.backend raises for any other tag.
BackendKnown(tag) == tag \in {"GRIB", "NETCDF"}

\* The checks that reach self.backend: the two resolution checks read the
\* file through cdo only (check.py:422-434).
UsesBackend(name) ==
    name \notin {"horizontal_resolution", "vertical_resolution"}

\* The per-file error values a report of the run holds.
ErrValues == {PyStr("e1"), PyStr("e2")}

\* The reports a check method can return over the matched paths: a file has
\* an entry only when an error was found for it.
Reports(ps) ==
    UNION {[S -> ErrValues] : S \in SUBSET Range(ps)}

\* check_temporal_resolution keys its report by "min", "max" and
\* "frequency" (check.py:344-361), never by a path.
TemporalReports ==
    UNION {[S -> ErrValues] : S \in SUBSET {"min", "max"}}

ReportsOf(name, ps) ==
    IF name = "temporal_resolution" THEN TemporalReports ELSE Reports(ps)

\* What method(**kwargs) does at check.py:490: Checker.paths raises
\* ValueError when nothing matched (check.py:114-119), Checker.backend
\* raises NotImplementedError for an unknown format, and a check may raise
\* on what it reads.
MethodOutcomes(name, cfg, ps) ==
    IF ps = <<>> \/ (UsesBackend(name) /\ ~BackendKnown(cfg.files_format))
    THEN {Raise}
    ELSE {Raise} \cup {Return(e) : e \in ReportsOf(name, ps)}

NoTrace == [n \in Range(available_checks) |-> "not_called"]
ZeroCounter == [k \in {"PASSED", "SKIPPED", "FAILED"} |-> 0]

\* The documents of the model: any of the required keys, at most MaxSections
\* check sections, possibly a key that names no check.
Configs ==
    { [keys |-> req \cup secs \cup other, files_format |-> tag] :
        req \in SUBSET RequiredKeys,
        secs \in {S \in SUBSET Range(available_checks) : Cardinality(S) <= MaxSections},
        other \in SUBSET OtherKeys,
        tag \in {"GRIB", "ZARR"} }

Init ==
    /\ config \in Configs
    /\ paths \in {<<>>, SubSeq(AllPaths, 1, MaxPaths)}
    /\ pc = "start"
    /\ i = 0
    /\ counter = ZeroCounter
    /\ summary = <<>>
    /\ trace = NoTrace
    /\ exit_code = -1
    /\ errors = EmptyDict
    /\ raised = FALSE
    /\ call = <<"none">>
    /\ files = EmptyDict

\* cli.py:110-114: ConfigChecker(configfile), then configchecker.checker,
\* which reads config[arg] for both arguments of Checker (check.py:476):
\* a missing key is a KeyError outside any try, and the process ends with
\* the status of an uncaught exception.
Construct ==
    /\ pc = "start"
    /\ IF RequiredKeys \subseteq config.keys
       THEN pc' = "loop" /\ i' = 1 /\ raised' = FALSE /\ exit_code' = exit_code
       ELSE pc' = "crashed" /\ i' = i /\ raised' = TRUE /\ exit_code' = 1
    /\ UNCHANGED <<config, paths, files, counter, summary, trace, call, errors>>

check_name == available_checks[i]

Tally(outcome) ==
    /\ counter' = [counter EXCEPT ![outcome] = @ + 1]
    /\ summary' = Append(summary, <<check_name, outcome>>)
    /\ i' = i + 1

\* Mutation: a check without a section is tallied as passed.
Skipped_AsPassed ==
    /\ pc = "loop" /\ i <= NChecks
    /\ check_name \notin config.keys
    /\ Tally("PASSED")
    /\ UNCHANGED <<config, paths, files, pc, trace, exit_code, call, errors, raised>>

\* cli.py:115-118.
Skipped ==
    /\ pc = "loop" /\ i <= NChecks
    /\ check_name \notin config.keys
    /\ Tally("SKIPPED")
    /\ UNCHANGED <<config, paths, files, pc, trace, exit_code, call, errors, raised>>

\* cli.py:121-126: configchecker.check raised.
CheckRaised ==
    /\ pc = "loop" /\ i <= NChecks
    /\ check_name \in config.keys
    /\ \E m \in MethodOutcomes(check_name, config, paths) :
          LET r == ConfigChecker_check(m, paths)
          IN  /\ r.raised
              /\ raised' = TRUE
              /\ trace' = [trace EXCEPT ![check_name] = "raised"]
              /\ call' = <<"check", check_name, m.raised>>
    /\ Tally("FAILED")
    /\ UNCHANGED <<config, paths, files, pc, exit_code, errors>>

\* cli.py:127-133: configchecker.check returned a non-empty report.
CheckFailed ==
    /\ pc = "loop" /\ i <= NChecks
    /\ check_name \in config.keys
    /\ \E m \in MethodOutcomes(check_name, config, paths) :
          LET r == ConfigChecker_check(m, paths)
          IN  /\ ~r.raised
              /\ r.errors # EmptyDict
              /\ errors' = r.errors
              /\ raised' = FALSE
              /\ trace' = [trace EXCEPT ![check_name] = "returned_errors"]
              /\ call' = <<"check", check_name, m.raised>>
    /\ Tally("FAILED")
    /\ UNCHANGED <<config, paths, files, pc, exit_code>>

\* cli.py:134-136: configchecker.check returned an empty report.
CheckPassed ==
    /\ pc = "loop" /\ i <= NChecks
    /\ check_name \in config.keys
    /\ \E m \in MethodOutcomes(check_name, config, paths) :
          LET r == ConfigChecker_check(m, paths)
          IN  /\ ~r.raised
              /\ r.errors = EmptyDict
              /\ errors' = r.errors
              /\ raised' = FALSE
              /\ trace' = [trace EXCEPT ![check_name] = "returned_empty"]
              /\ call' = <<"check", check_name, m.raised>>
    /\ Tally("PASSED")
    /\ UNCHANGED <<config, paths, files, pc, exit_code>>

\* Mutation: the exit code does not depend on the FAILED counter.
Exit_AlwaysZero ==
    /\ pc = "loop" /\ i = NChecks + 1
    /\ pc' = "exit"
    /\ exit_code' = 0
    /\ UNCHANGED <<config, paths, files, i, counter, summary, trace, call,
                   errors, raised>>

\* cli.py:138-142: raise typer.Exit(code=counter["FAILED"] != 0).
Exit ==
    /\ pc = "loop" /\ i = NChecks + 1
    /\ pc' = "exit"
    /\ exit_code' = IF counter["FAILED"] # 0 THEN 1 ELSE 0
    /\ UNCHANGED <<config, paths, files, i, counter, summary, trace, call,
                   errors, raised>>

Next ==
    \/ Construct
    \/ Skipped
    \/ CheckRaised
    \/ CheckFailed
    \/ CheckPassed
    \/ Exit

Spec == Init /\ [][Next]_vars

-----------------------------------------------------------------------------
(* Claims about the command line run. *)

\* The summary lines with the given outcome.
Lines(outcome) == {k \in DOMAIN summary : summary[k][2] = outcome}

\* The summary and the counters of a run that has reached its loop.
C2_LoopOutcomes ==
    pc \in {"loop", "exit"} =>
        /\ Len(summary) = i - 1
        /\ \A k \in DOMAIN summary :
              LET name == summary[k][1]
                  outcome == summary[k][2]
              IN  /\ name = available_checks[k]
                  /\ outcome \in {"PASSED", "SKIPPED", "FAILED"}
                  /\ outcome = "SKIPPED" <=> name \notin config.keys
                  /\ outcome = "SKIPPED" <=> trace[name] = "not_called"
                  /\ outcome = "PASSED" <=> trace[name] = "returned_empty"
                  /\ outcome = "FAILED" <=>
                        trace[name] \in {"returned_errors", "raised"}
        /\ \A o \in {"PASSED", "SKIPPED", "FAILED"} :
              counter[o] = Cardinality(Lines(o))
        /\ pc = "exit" =>
              counter["PASSED"] + counter["SKIPPED"] + counter["FAILED"] = NChecks

C3_Original ==
    pc \in {"exit", "crashed"} =>
        (exit_code # 0 <=> Lines("FAILED") # {})

\* C3 amended: a run that reaches its summary exits non-zero iff a check was
\* tallied FAILED (it raised or returned a non-empty report); a run whose
\* configuration lacks files_pattern or files_format ends non-zero on the
\* uncaught KeyError with no check tallied.
C3_ExitCode ==
    /\ pc = "exit" =>
          /\ exit_code \in {0, 1}
          /\ exit_code # 0 <=> Lines("FAILED") # {}
          /\ exit_code # 0 <=>
                \E n \in Range(available_checks) :
                    trace[n] \in {"returned_errors", "raised"}
    /\ pc = "crashed" =>
          /\ exit_code # 0
          /\ summary = <<>>
          /\ ~(RequiredKeys \subseteq config.keys)
    /\ pc \in {"start", "loop"} => exit_code = -1

\* A finished run whose only failure is a check that raised.
C3_Witness ==
    /\ pc = "exit"
    /\ exit_code = 1
    /\ counter["FAILED"] = 1
    /\ \E n \in Range(available_checks) : trace[n] = "raised"

CheckOperations == {SplitCheck(name) : name \in {n \in dir_Checker : IsCheck(n)}}

\* The checks are the check_ operations, each once, in sorted order.
SortedChecks ==
    /\ Len(available_check_names) = Cardinality(CheckOperations)
    /\ Range(available_check_names) = CheckOperations
    /\ \A j, k \in DOMAIN available_check_names :
          j < k => StrLess(available_check_names[j], available_check_names[k])
    /\ available_checks =
          << "cf_compliance", "completeness", "format", "global_attributes",
             "global_dimensions", "horizontal_resolution", "temporal_resolution",
             "variable_attributes", "variable_dimensions", "vertical_resolution" >>

\* A step that calls a check or writes a summary line handles the check the
\* loop is at, after a line was written for every check before it, and
\* writes the next line for it.
OneCheckAtATime ==
    (trace' # trace \/ summary' # summary) =>
        /\ pc = "loop"
        /\ Len(summary) = i - 1
        /\ \E outcome \in {"PASSED", "SKIPPED", "FAILED"} :
              summary' = Append(summary, <<available_checks[i], outcome>>)
        /\ \A n \in Range(available_checks) \ {available_checks[i]} :
              trace'[n] = trace[n]
        /\ i' = i + 1

\* C14: the available checks are the names of the check_ operations of
\* Checker without the prefix, in sorted order; a run handles them one at a
\* time in that order, each after the one before it has its outcome, and
\* the summary lists them in that order.
C14_SortedSequential ==
    /\ [](SortedChecks
            /\ \A k \in DOMAIN summary : summary[k][1] = available_checks[k])
    /\ [][OneCheckAtATime]_vars

\* A finished run that called the first and the third check and skipped
\* the second.
C14_Witness ==
    /\ pc = "exit"
    /\ Len(summary) = NChecks
    /\ trace[available_checks[1]] # "not_called"
    /\ trace[available_checks[2]] = "not_called"
    /\ trace[available_checks[3]] # "not_called"

\* A configuration error: a required key is missing, the pattern matches no
\* file, or files_format has no backend.
MissingRequiredKey == ~(RequiredKeys \subseteq config.keys)

ConfigurationError ==
    MissingRequiredKey \/ paths = <<>> \/ ~BackendKnown(config.files_format)

\* No check operation was started or tallied as passed or failed.
NoCheckRun ==
    /\ trace = NoTrace
    /\ counter["PASSED"] = 0 /\ counter["FAILED"] = 0
    /\ \A k \in DOMAIN summary : summary[k][2] = "SKIPPED"

\* C21: with a required key missing, a pattern that matches no file or a
\* files_format other than GRIB and NETCDF, the run fails before any check
\* operation is started or tallied.
C21_FailFast == ConfigurationError => NoCheckRun

\* What holds of the code: a missing required key ends the run at the
\* construction of the Checker, before the loop over the checks.
C21_MissingKeyFailsFast ==
    MissingRequiredKey =>
        /\ NoCheckRun
        /\ summary = <<>>
        /\ pc \in {"start", "crashed"}

\* Both required keys present and a pattern that matches no file: a
\* configured check was started, raised inside the loop and was tallied
\* FAILED, and the run went on to its exit with status 1.
C21_Witness ==
    /\ ~MissingRequiredKey
    /\ paths = <<>>
    /\ pc = "exit" /\ exit_code = 1
    /\ counter["FAILED"] >= 1
    /\ \E n \in Range(available_checks) : trace[n] = "raised"

-----------------------------------------------------------------------------
(* ConfigChecker.check called on its own, over any matched paths. *)

ValidConfig == [keys |-> RequiredKeys \cup Range(available_checks),
                files_format |-> "GRIB"]

\* The variables of the run while a single operation is called.
NoRun ==
    /\ pc = "idle"
    /\ i = 0
    /\ counter = ZeroCounter
    /\ summary = <<>>
    /\ trace = NoTrace
    /\ exit_code = -1

RunVars == <<pc, i, counter, summary, trace, exit_code>>

\* A behaviour of a single operation is one call from the initial state.
NotCalled == call = <<"none">>

InitDispatch ==
    /\ config = ValidConfig
    /\ paths \in PathLists(MaxPaths)
    /\ files = EmptyDict
    /\ call = <<"none">>
    /\ errors = EmptyDict
    /\ raised = FALSE
    /\ NoRun

\* check.py:479-499 when the method returns.
DispatchReturns ==
    /\ NotCalled
    /\ \E name \in Range(available_checks) :
       \E m \in MethodOutcomes(name, config, paths) :
          LET r == ConfigChecker_check(m, paths)
          IN  /\ ~r.raised
              /\ call' = <<"check", name, m>>
              /\ errors' = r.errors
              /\ raised' = FALSE
    /\ UNCHANGED <<config, paths, files>>
    /\ UNCHANGED RunVars

\* check.py:479-490 when the method raises.
DispatchRaises ==
    /\ NotCalled
    /\ \E name \in Range(available_checks) :
       \E m \in MethodOutcomes(name, config, paths) :
          LET r == ConfigChecker_check(m, paths)
          IN  /\ r.raised
              /\ call' = <<"check", name, m>>
              /\ errors' = EmptyDict
              /\ raised' = TRUE
    /\ UNCHANGED <<config, paths, files>>
    /\ UNCHANGED RunVars

NextDispatch == DispatchReturns \/ DispatchRaises

SpecDispatch == InitDispatch /\ [][NextDispatch]_vars

\* C1: the report ConfigChecker.check returns is the single entry
\* {files_pattern: value} when the method's report has exactly the matched
\* paths as keys and one value for all of them, and is the method's report
\* unchanged when a matched path has no entry or two values differ.
C1_Deduplication ==
    (call[1] = "check" /\ ~raised) =>
        LET raw == call[3].errors
            collapses == /\ DOMAIN raw = Range(paths)
                         /\ \A p, q \in DOMAIN raw : raw[p] = raw[q]
        IN  /\ collapses =>
                  /\ DOMAIN errors = {files_pattern}
                  /\ \A p \in Range(paths) : errors[files_pattern] = raw[p]
            /\ ~collapses => errors = raw

\* Two matched files with the same error value, collapsed to the pattern.
C1_Witness ==
    /\ call[1] = "check" /\ ~raised
    /\ Len(paths) = 2
    /\ DOMAIN call[3].errors = Range(paths)
    /\ DOMAIN errors = {files_pattern}

-----------------------------------------------------------------------------
(* The comparison rule shared by the attribute and dimension checks. *)

\* for key, value in expected.items(): the loop of check.py:46-50 over the
\* keys not yet visited.
RECURSIVE CompareLoop(_, _, _, _, _)
CompareLoop(todo, expected, actual, always_check_value, errs) ==
    IF todo = {} THEN errs
    ELSE LET key == CHOOSE k \in todo : TRUE
             value == expected[key]
             errs1 ==
                 IF key \notin DOMAIN actual
                 THEN errs @@ (key :> None)
                 ELSE IF (always_check_value \/ value # PyStr(""))
                         /\ actual[key] # value
                      THEN errs @@ (key :> actual[key])
                      ELSE errs
         IN  CompareLoop(todo \ {key}, expected, actual, always_check_value, errs1)

\* Mutation: a missing key is not reported.
check_attributes_or_sizes_SkipMissing(expected, actual, always_check_value) ==
    CompareLoop(DOMAIN expected \cap DOMAIN actual, expected, actual,
                always_check_value, EmptyDict)

\* Mutation: the empty string is compared like any other value.
check_attributes_or_sizes_NoPlaceholder(expected, actual, always_check_value) ==
    CompareLoop(DOMAIN expected, expected, actual, TRUE, EmptyDict)

\* check.py:40-52.
check_attributes_or_sizes(expected, actual, always_check_value) ==
    CompareLoop(DOMAIN expected, expected, actual, always_check_value, EmptyDict)

\* for key, value in expected.items(): the loop of checker.py:187-191.
RECURSIVE OldCompareLoop(_, _, _, _)
OldCompareLoop(todo, expected, actual, errs) ==
    IF todo = {} THEN errs
    ELSE LET key == CHOOSE k \in todo : TRUE
             value == expected[key]
             errs1 ==
                 IF key \notin DOMAIN actual
                 THEN errs @@ (key :> None)
                 ELSE IF value # None /\ actual[key] # value
                      THEN errs @@ (key :> actual[key])
                      ELSE errs
         IN  OldCompareLoop(todo \ {key}, expected, actual, errs1)

\* checker.py:183-193, the comparison rule of the historical Checker.
check_attributes(expected, actual) ==
    OldCompareLoop(DOMAIN expected, expected, actual, EmptyDict)

\* The attribute or dimension names of the model.
Keys == {"a", "b"}

\* Expected values of a configuration section or a direct call.
ExpectedValues == {PyStr(""), PyStr("x"), PyStr("y"), PyInt(1), None}
\* Values a file holds for an attribute or a dimension.
ActualValues == {PyStr(""), PyStr("x"), PyStr("y"), PyInt(1), None}

Dicts(keys, values) == UNION {[S -> values] : S \in SUBSET keys}

InitCompare ==
    /\ config = ValidConfig
    /\ paths = <<>>
    /\ files = EmptyDict
    /\ call = <<"none">>
    /\ errors = EmptyDict
    /\ raised = FALSE
    /\ NoRun

\* A call of check_attributes_or_sizes (check.py:40-52).
Call_check_attributes_or_sizes ==
    /\ NotCalled
    /\ \E expected \in Dicts(Keys, ExpectedValues) :
       \E actual \in Dicts(Keys, ActualValues) :
       \E always_check_value \in BOOLEAN :
          /\ call' = <<"check_attributes_or_sizes", expected, actual,
                       always_check_value>>
          /\ errors' = check_attributes_or_sizes(expected, actual,
                                                 always_check_value)
    /\ raised' = FALSE
    /\ UNCHANGED <<config, paths, files>>
    /\ UNCHANGED RunVars

\* A call of check_attributes (checker.py:183-193).
Call_check_attributes ==
    /\ NotCalled
    /\ \E expected \in Dicts(Keys, ExpectedValues) :
       \E actual \in Dicts(Keys, ActualValues) :
          /\ call' = <<"check_attributes", expected, actual>>
          /\ errors' = check_attributes(expected, actual)
    /\ raised' = FALSE
    /\ UNCHANGED <<config, paths, files>>
    /\ UNCHANGED RunVars

NextCompare == Call_check_attributes_or_sizes \/ Call_check_attributes

SpecCompare == InitCompare /\ [][NextCompare]_vars

\* C5: with always_check_value false, the keys of the result are exactly
\* the expected keys that are absent from actual, mapped to None, or present
\* with an expected value other than "" that differs from the actual value,
\* mapped to the actual value.
C5_CompareRule ==
    (call[1] = "check_attributes_or_sizes" /\ ~call[4]) =>
        LET expected == call[2]
            actual == call[3]
            absent == {k \in DOMAIN expected : k \notin DOMAIN actual}
            differs == {k \in DOMAIN expected \cap DOMAIN actual :
                           expected[k] # PyStr("") /\ expected[k] # actual[k]}
        IN  /\ DOMAIN errors = absent \cup differs
            /\ \A k \in absent : errors[k] = None
            /\ \A k \in differs : errors[k] = actual[k]
            /\ \A k \in DOMAIN actual \ DOMAIN expected : k \notin DOMAIN errors

\* The case of test_global_attrs: a mismatch and a missing key reported, a
\* placeholder on a present key not reported.
C5_Witness ==
    /\ call[1] = "check_attributes_or_sizes" /\ ~call[4]
    /\ call[2] = [a |-> PyStr(""), b |-> PyStr("x")]
    /\ call[3] = [a |-> PyStr("y"), b |-> PyStr("y")]
    /\ errors = [b |-> PyStr("y")]

\* C6 as stated: in both comparison rules an expected value of "" or None
\* only verifies presence: a present key is never reported, an absent key is
\* reported with None.
C6_Original ==
    ((call[1] = "check_attributes_or_sizes" /\ ~call[4])
        \/ call[1] = "check_attributes") =>
        LET expected == call[2]
            actual == call[3]
        IN  \A k \in DOMAIN expected :
                expected[k] \in {PyStr(""), None} =>
                    /\ k \in DOMAIN actual => k \notin DOMAIN errors
                    /\ k \notin DOMAIN actual =>
                          (k \in DOMAIN errors /\ errors[k] = None)

\* C6 amended: in the checks of check.py only "" is the placeholder (a
\* present key is never reported, an absent key is reported with None) and
\* an expected None is compared like any value: a present key is reported
\* with its actual value unless that value is None.  In the rule of
\* checker.py it is the reverse: None is the placeholder and an expected ""
\* is reported with the actual value unless that value is "".
C6_Placeholder ==
    /\ (call[1] = "check_attributes_or_sizes" /\ ~call[4]) =>
          LET expected == call[2]
              actual == call[3]
          IN  \A k \in DOMAIN expected :
                  /\ k \notin DOMAIN actual =>
                        (k \in DOMAIN errors /\ errors[k] = None)
                  /\ (expected[k] = PyStr("") /\ k \in DOMAIN actual) =>
                        k \notin DOMAIN errors
                  /\ (expected[k] = None /\ k \in DOMAIN actual) =>
                        /\ k \in DOMAIN errors <=> actual[k] # None
                        /\ k \in DOMAIN errors => errors[k] = actual[k]
    /\ call[1] = "check_attributes" =>
          LET expected == call[2]
              actual == call[3]
          IN  \A k \in DOMAIN expected :
                  /\ k \notin DOMAIN actual =>
                        (k \in DOMAIN errors /\ errors[k] = None)
                  /\ (expected[k] = None /\ k \in DOMAIN actual) =>
                        k \notin DOMAIN errors
                  /\ (expected[k] = PyStr("") /\ k \in DOMAIN actual) =>
                        /\ k \in DOMAIN errors <=> actual[k] # PyStr("")
                        /\ k \in DOMAIN errors => errors[k] = actual[k]

\* check.py: "" on a present key passes, None on a present key is reported.
C6_Witness ==
    /\ call[1] = "check_attributes_or_sizes" /\ ~call[4]
    /\ call[2] = [a |-> PyStr(""), b |-> None]
    /\ call[3] = [a |-> PyStr("x"), b |-> PyStr("x")]
    /\ errors = [b |-> PyStr("x")]

-----------------------------------------------------------------------------
(* The variable attribute and dimension checks over the matched files. *)

\* What a backend exposes of one file (baseformat.py:22-59).
EmptyFile ==
    [ full_format |-> <<>>,
      global_attrs |-> EmptyDict,
      global_sizes |-> EmptyDict,
      variable_attrs |-> EmptyDict,
      variable_sizes |-> EmptyDict,
      time |-> <<>>,
      data_vars |-> EmptyDict,
      griddes |-> <<>>,
      zaxisdes |-> <<>>,
      cf |-> EmptyDict ]

\* The variables a file may hold or a section may name.
Vars == {"v", "w"}
\* The attribute or dimension of a variable.
VarKeys == {"a"}

\* The two attribute values and the two sizes a file may hold.
AttrOf(n) == IF n = 1 THEN PyStr("x") ELSE PyStr("y")
SizeOf(n) == IF n = 1 THEN PyInt(1) ELSE PyInt(2)

\* A file's variables, the attribute and the size of each drawn together.
FileVariables ==
    UNION {[S -> Dicts(VarKeys, {1, 2})] : S \in SUBSET Vars}

VariableFile(fv) ==
    [EmptyFile EXCEPT
        !.variable_attrs = [var \in DOMAIN fv |->
                               [k \in DOMAIN fv[var] |-> AttrOf(fv[var][k])]],
        !.variable_sizes = [var \in DOMAIN fv |->
                               [k \in DOMAIN fv[var] |-> SizeOf(fv[var][k])]]]

\* The sections [variable_attributes.<var>] and [variable_dimensions.<var>].
ExpectedVariableAttrs ==
    UNION {[S -> Dicts(VarKeys, {PyStr(""), PyStr("x"), None})] : S \in SUBSET Vars}
ExpectedVariableSizes ==
    UNION {[S -> Dicts(VarKeys, {PyStr(""), PyInt(1), None})] : S \in SUBSET Vars}

\* Mutation: an empty comparison result is recorded too (no "if error").
RECURSIVE VarLoop_KeepEmpty(_, _, _, _)
VarLoop_KeepEmpty(todo, expected, actual, entry) ==
    IF todo = {} THEN entry
    ELSE LET var == CHOOSE v \in todo : TRUE
             entry1 ==
                 IF var \notin DOMAIN actual
                 THEN entry @@ (var :> None)
                 ELSE entry @@ (var :> PyDict(check_attributes_or_sizes(
                                                expected[var], actual[var], FALSE)))
         IN  VarLoop_KeepEmpty(todo \ {var}, expected, actual, entry1)

\* for var, expected_var_attrs in expected.items(): check.py:154-162, entry
\* being what errors[path] holds so far.
RECURSIVE VarLoop(_, _, _, _)
VarLoop(todo, expected, actual, entry) ==
    IF todo = {} THEN entry
    ELSE LET var == CHOOSE v \in todo : TRUE
             error == check_attributes_or_sizes(expected[var], actual[var], FALSE)
             entry1 ==
                 IF var \notin DOMAIN actual
                 THEN entry @@ (var :> None)
                 ELSE IF DOMAIN error # {}
                      THEN entry @@ (var :> PyDict(error))
                      ELSE entry
         IN  VarLoop(todo \ {var}, expected, actual, entry1)

\* for path in self.paths_iterator: check.py:152-163.  errors is a
\* defaultdict: a path gets a key when its first entry is written.
RECURSIVE VarPathLoop(_, _, _, _, _)
VarPathLoop(ps, fs, attr_name, expected, errs) ==
    IF ps = <<>> THEN errs
    ELSE LET path == Head(ps)
             actual == fs[path][attr_name]
             entry == VarLoop(DOMAIN expected, expected, actual, EmptyDict)
         IN  VarPathLoop(Tail(ps), fs, attr_name, expected,
                         IF DOMAIN entry = {} THEN errs
                         ELSE errs @@ (path :> entry))

\* check.py:146-163; Checker.paths raises when nothing matched
\* (check.py:114-119).
check_variable_attrs_or_sizes(ps, fs, attr_name, expected) ==
    IF ps = <<>> THEN Raise
    ELSE Return(VarPathLoop(ps, fs, attr_name, expected, EmptyDict))

InitVariable ==
    /\ config = ValidConfig
    /\ paths \in PathLists(MaxPaths)
    /\ files \in [Range(paths) -> {VariableFile(fv) : fv \in FileVariables}]
    /\ call = <<"none">>
    /\ errors = EmptyDict
    /\ raised = FALSE
    /\ NoRun

\* check.py:165-184.
check_variable_attributes ==
    /\ NotCalled
    /\ \E expected \in ExpectedVariableAttrs :
          LET r == check_variable_attrs_or_sizes(paths, files, "variable_attrs",
                                                 expected)
          IN  /\ call' = <<"check_variable_attributes", expected, "variable_attrs">>
              /\ errors' = r.errors
              /\ raised' = r.raised
    /\ UNCHANGED <<config, paths, files>>
    /\ UNCHANGED RunVars

\* check.py:186-205.
check_variable_dimensions ==
    /\ NotCalled
    /\ \E expected \in ExpectedVariableSizes :
          LET r == check_variable_attrs_or_sizes(paths, files, "variable_sizes",
                                                 expected)
          IN  /\ call' = <<"check_variable_dimensions", expected, "variable_sizes">>
              /\ errors' = r.errors
              /\ raised' = r.raised
    /\ UNCHANGED <<config, paths, files>>
    /\ UNCHANGED RunVars

NextVariable == check_variable_attributes \/ check_variable_dimensions

SpecVariable == InitVariable /\ [][NextVariable]_vars

\* The shared comparison rule, stated key by key (C5).
RuleKeys(expected, actual) ==
    {k \in DOMAIN expected :
        \/ k \notin DOMAIN actual
        \/ (expected[k] # PyStr("") /\ expected[k] # actual[k])}

RuleResult(expected, actual) ==
    [k \in RuleKeys(expected, actual) |->
        IF k \in DOMAIN actual THEN actual[k] ELSE None]

HasEntry(path, var) ==
    path \in DOMAIN errors /\ var \in DOMAIN errors[path]

\* C8: after check_variable_attributes or check_variable_dimensions, for
\* every matched file and requested variable: a variable missing from the
\* file has the entry None; any other has an entry iff the comparison rule
\* gives a non-empty result, and the entry is that result.  Nothing else is
\* in the report, and a file without a failing variable has no key.
C8_VariableReport ==
    (call[1] \in {"check_variable_attributes", "check_variable_dimensions"}
        /\ ~raised) =>
        LET expected == call[2]
            attr_name == call[3]
        IN  /\ \A path \in Range(paths) : \A var \in DOMAIN expected :
                  LET actual == files[path][attr_name]
                  IN  IF var \notin DOMAIN actual
                      THEN HasEntry(path, var) /\ errors[path][var] = None
                      ELSE LET result == RuleResult(expected[var], actual[var])
                           IN  /\ HasEntry(path, var) <=> DOMAIN result # {}
                               /\ HasEntry(path, var) =>
                                     errors[path][var] = PyDict(result)
            /\ DOMAIN errors \subseteq Range(paths)
            /\ \A path \in DOMAIN errors :
                  /\ DOMAIN errors[path] # {}
                  /\ DOMAIN errors[path] \subseteq DOMAIN expected

\* Two files and two requested variables: in the first file one variable is
\* missing and the other fails the rule, the second file has no error.
C8_Witness ==
    /\ call[1] = "check_variable_attributes" /\ ~raised
    /\ Len(paths) = 2
    /\ DOMAIN call[2] = Vars
    /\ DOMAIN errors = {paths[1]}
    /\ DOMAIN errors[paths[1]] = Vars
    /\ errors[paths[1]]["v"] = None
    /\ errors[paths[1]]["w"] = PyDict([a |-> PyStr("y")])

-----------------------------------------------------------------------------
(* check_format: strings are compared character by character. *)

\* The characters of the strings of the model.
Chars(s) ==
    CASE s = "" -> <<>>
      [] s = "1" -> <<"1">>
      [] s = "4" -> <<"4">>
      [] s = "GRIB" -> <<"G", "R", "I", "B">>
      [] s = "GRIB1" -> <<"G", "R", "I", "B", "1">>
      [] s = "GRIB2" -> <<"G", "R", "I", "B", "2">>
      [] s = "NETCDF" -> <<"N", "E", "T", "C", "D", "F">>
      [] s = "NETCDF4" -> <<"N", "E", "T", "C", "D", "F", "4">>
      [] s = "NETCDF3_CLASSIC" ->
            <<"N", "E", "T", "C", "D", "F", "3", "_", "C", "L", "A", "S", "S", "I", "C">>
      [] s = "NETCDF4_CLASSIC" ->
            <<"N", "E", "T", "C", "D", "F", "4", "_", "C", "L", "A", "S", "S", "I", "C">>

\* str.startswith.
StartsWith(chars, prefix) ==
    /\ Len(prefix) <= Len(chars)
    /\ SubSeq(chars, 1, Len(prefix)) = prefix

Digit(n) == <<"0", "1", "2", "3", "4", "5", "6", "7", "8", "9">>[n + 1]

\* What an f-string makes of a value: str, int (one digit) or float.
Format(v) ==
    CASE v[1] = "str" -> Chars(v[2])
      [] v[1] = "int" -> <<Digit(v[2])>>
      [] v[1] = "float" -> <<Digit(v[2]), ".", Digit(v[3])>>
      [] v[1] = "none" -> <<"N", "o", "n", "e">>

\* The truth value of a Python value: None, "", 0 and 0.0 are false.
Truthy(v) ==
    CASE v[1] = "none" -> FALSE
      [] v[1] = "str" -> v[2] # ""
      [] v[1] = "int" -> v[2] # 0
      [] v[1] = "float" -> v[2] # 0 \/ v[3] # 0
      [] v[1] = "bool" -> v[2]

\* Mutation: the version is not part of the prefix.
expected_prefix_NoVersion(files_format, version) == Chars(files_format)

\* check.py:138: f"{self.files_format}{version if version else ''}".
expected_prefix(files_format, version) ==
    Chars(files_format) \o (IF Truthy(version) THEN Format(version) ELSE <<>>)

\* check.py:140-143.
RECURSIVE FormatLoop(_, _, _, _)
FormatLoop(ps, fs, prefix, errs) ==
    IF ps = <<>> THEN errs
    ELSE LET path == Head(ps)
             full_format == fs[path].full_format
         IN  FormatLoop(Tail(ps), fs, prefix,
                        IF ~StartsWith(Chars(full_format), prefix)
                        THEN errs @@ (path :> PyStr(full_format))
                        ELSE errs)

\* check.py:125-144; Checker.paths raises when nothing matched.
Checker_check_format(ps, fs, files_format, version) ==
    IF ps = <<>> THEN Raise
    ELSE Return(FormatLoop(ps, fs, expected_prefix(files_format, version),
                           EmptyDict))

\* grib.py:28-31 and netcdf.py:28-31: what each backend reads as full_format.
FullFormats(files_format) ==
    IF files_format = "GRIB"
    THEN {"GRIB", "GRIB1", "GRIB2"}
    ELSE {"NETCDF4", "NETCDF3_CLASSIC", "NETCDF4_CLASSIC"}

\* The values of version in a [format] section or a direct call.
Versions ==
    {None, PyStr(""), PyStr("1"), PyStr("4"), PyInt(0), PyInt(2), PyInt(4),
     PyFloat(2, 0), PyFloat(0, 0)}

InitFormat ==
    /\ \E tag \in {"GRIB", "NETCDF"} :
          /\ config = [ValidConfig EXCEPT !.files_format = tag]
          /\ paths \in PathLists(MaxPaths)
          /\ files \in [Range(paths) ->
                          {[EmptyFile EXCEPT !.full_format = f] :
                              f \in FullFormats(tag)}]
    /\ call = <<"none">>
    /\ errors = EmptyDict
    /\ raised = FALSE
    /\ NoRun

\* A call of Checker.check_format (check.py:125-144).
check_format ==
    /\ NotCalled
    /\ \E version \in Versions :
          LET r == Checker_check_format(paths, files, config.files_format, version)
          IN  /\ call' = <<"check_format", version>>
              /\ errors' = r.errors
              /\ raised' = r.raised
    /\ UNCHANGED <<config, paths, files>>
    /\ UNCHANGED RunVars

NextFormat == check_format

SpecFormat == InitFormat /\ [][NextFormat]_vars

\* C7: the keys of the report of check_format(version) are exactly the
\* matched paths whose full_format does not start with files_format followed
\* by the version as a string, nothing being appended when the version is
\* absent (None); each is mapped to the file's full_format.
C7_FormatReport ==
    (call[1] = "check_format" /\ ~raised) =>
        LET version == call[2]
            prefix == Chars(config.files_format)
                        \o (IF version = None THEN <<>> ELSE Format(version))
            failing == {path \in Range(paths) :
                           ~StartsWith(Chars(files[path].full_format), prefix)}
        IN  /\ DOMAIN errors = failing
            /\ \A path \in failing : errors[path] = PyStr(files[path].full_format)

\* The same with "absent" read as the code reads it: None, "", 0 and 0.0.
C7_FormatReportFalsy ==
    (call[1] = "check_format" /\ ~raised) =>
        LET version == call[2]
            prefix == Chars(config.files_format)
                        \o (IF version \in {None, PyStr(""), PyInt(0), PyFloat(0, 0)}
                            THEN <<>> ELSE Format(version))
            failing == {path \in Range(paths) :
                           ~StartsWith(Chars(files[path].full_format), prefix)}
        IN  /\ DOMAIN errors = failing
            /\ \A path \in failing : errors[path] = PyStr(files[path].full_format)

\* test_format: of two files only the NETCDF3 one is reported for "4".
C7_Witness ==
    /\ call = <<"check_format", PyStr("4")>>
    /\ Len(paths) = 2
    /\ files[paths[1]].full_format = "NETCDF4_CLASSIC"
    /\ files[paths[2]].full_format = "NETCDF3_CLASSIC"
    /\ errors = (paths[2] :> PyStr("NETCDF3_CLASSIC"))

-----------------------------------------------------------------------------
(* check_temporal_resolution: timestamps are integers. *)

\* A date, datetime or string given as min or max, naming the timestamp t.
Date(t) == <<"date", t>>
\* pd.to_datetime of such a value (check.py:347, 351).
to_datetime(d) == d[2]
\* str(...) of a timestamp and of a difference of timestamps.
TimeStr(t) == <<"timestr", t>>
DeltaStr(d) == <<"deltastr", d>>
PySet(S) == <<"set", S>>

\* A pandas frequency: a fixed step of n ("nD"), or n anchored on the
\* multiples of n (as "MS" is anchored on the month starts).
Tick(n) == <<"tick", n>>
Anchored(n) == <<"anchored", n>>

\* xr.concat(times, name) over the files in the order of the paths
\* (check.py:338-341).
RECURSIVE ConcatTimes(_, _)
ConcatTimes(ps, fs) ==
    IF ps = <<>> THEN <<>>
    ELSE fs[Head(ps)].time \o ConcatTimes(Tail(ps), fs)

\* time.sortby(time) (check.py:342).
SortTimes(time) == SortSeq(time, LAMBDA a, b : a < b)

\* pd.date_range(start, end, freq=frequency) (check.py:355-357): the points
\* start, start + n, ... up to end, or the anchors within [start, end].
RECURSIVE DateRangeFrom(_, _, _)
DateRangeFrom(t, end, n) ==
    IF t > end THEN <<>> ELSE <<t>> \o DateRangeFrom(t + n, end, n)

date_range(start, end, frequency) ==
    LET n == frequency[2]
        first == IF frequency[1] = "anchored" /\ start % n # 0
                 THEN start + (n - (start % n))
                 ELSE start
    IN  DateRangeFrom(first, end, n)

\* time.diff(name).values (check.py:359).
Diff(time) == [k \in 1..(Len(time) - 1) |-> time[k + 1] - time[k]]

\* Mutation: the frequency error is raised on a size mismatch only.
FrequencyFails_SizeOnly(time, frequency) ==
    Len(time) # Len(date_range(time[1], time[Len(time)], frequency))

\* check.py:355-358, time being sorted.
FrequencyFails(time, frequency) ==
    LET expected_time == date_range(time[1], time[Len(time)], frequency)
    IN  \/ Len(time) # Len(expected_time)
        \/ ~(\A k \in DOMAIN time : time[k] = expected_time[k])

\* Mutation: the expected axis runs between the expected min and max, when
\* they are given, instead of the observed ones.
TemporalErrors_ExpectedRange(time, min, max, frequency) ==
    LET actual_min == time[1]
        actual_max == time[Len(time)]
        start == IF min # None THEN to_datetime(min) ELSE actual_min
        end == IF max # None THEN to_datetime(max) ELSE actual_max
        expected_time == date_range(start, end, frequency)
        e1 == IF min # None /\ actual_min # to_datetime(min)
              THEN ("min" :> TimeStr(actual_min)) ELSE EmptyDict
        e2 == IF max # None /\ actual_max # to_datetime(max)
              THEN e1 @@ ("max" :> TimeStr(actual_max)) ELSE e1
    IN  IF frequency # None /\ time # expected_time
        THEN e2 @@ ("frequency" :> PySet({DeltaStr(d) : d \in Range(Diff(time))}))
        ELSE e2

\* check.py:344-361, time being the sorted concatenation.
TemporalErrors(time, min, max, frequency) ==
    LET actual_min == time[1]
        actual_max == time[Len(time)]
        e1 == IF min # None /\ actual_min # to_datetime(min)
              THEN ("min" :> TimeStr(actual_min)) ELSE EmptyDict
        e2 == IF max # None /\ actual_max # to_datetime(max)
              THEN e1 @@ ("max" :> TimeStr(actual_max)) ELSE e1
        e3 == IF frequency # None /\ FrequencyFails(time, frequency)
              THEN e2 @@ ("frequency" :>
                              PySet({DeltaStr(d) : d \in Range(Diff(time))}))
              ELSE e2
    IN  e3

\* check.py:309-361; Checker.paths raises when nothing matched.
Checker_check_temporal_resolution(ps, fs, min, max, frequency) ==
    IF ps = <<>> THEN Raise
    ELSE Return(TemporalErrors(SortTimes(ConcatTimes(ps, fs)), min, max,
                               frequency))

\* The time coordinate of a file: one or two timestamps, in any order.
TimeCoordinates ==
    {<<t>> : t \in 0..MaxTime} \cup {<<t, u>> : t \in 0..MaxTime, u \in 0..MaxTime}

\* The values of min and max, and of frequency, in a section or a call.
ExpectedTimes == {None, Date(0), Date(1)}
Frequencies == {None, Tick(1), Tick(2), Anchored(2)}

InitTemporal ==
    /\ config = ValidConfig
    /\ paths \in PathLists(MaxPaths)
    /\ files \in [Range(paths) ->
                    {[EmptyFile EXCEPT !.time = tc] : tc \in TimeCoordinates}]
    /\ call = <<"none">>
    /\ errors = EmptyDict
    /\ raised = FALSE
    /\ NoRun

\* A call of Checker.check_temporal_resolution (check.py:309-361).
check_temporal_resolution ==
    /\ NotCalled
    /\ \E min \in ExpectedTimes : \E max \in ExpectedTimes :
       \E frequency \in Frequencies :
          LET r == Checker_check_temporal_resolution(paths, files, min, max,
                                                     frequency)
          IN  /\ call' = <<"check_temporal_resolution", min, max, frequency>>
              /\ errors' = r.errors
              /\ raised' = r.raised
    /\ UNCHANGED <<config, paths, files>>
    /\ UNCHANGED RunVars

NextTemporal == check_temporal_resolution

SpecTemporal == InitTemporal /\ [][NextTemporal]_vars

\* The observed timestamps of all matched files, and how many there are.
Observed == UNION {Range(files[p].time) : p \in Range(paths)}
RECURSIVE CountTimes(_)
CountTimes(ps) ==
    IF ps = <<>> THEN 0 ELSE Len(files[Head(ps)].time) + CountTimes(Tail(ps))

\* The differences between consecutive timestamps of the sorted sequence:
\* the gaps between neighbours, and 0 when a timestamp occurs twice.
ObservedGaps ==
    {b - a : <<a, b>> \in {pr \in Observed \X Observed :
                              /\ pr[1] < pr[2]
                              /\ ~\E c \in Observed : pr[1] < c /\ c < pr[2]}}
      \cup (IF CountTimes(paths) > Cardinality(Observed) THEN {0} ELSE {})

\* The sorted sequence is the regular axis from its minimum to its maximum:
\* every consecutive difference is the step and, for an anchored frequency,
\* the minimum is an anchor.
IsRegular(frequency) ==
    /\ ObservedGaps \subseteq {frequency[2]}
    /\ frequency[1] = "anchored" =>
          \A t \in Observed : t % frequency[2] = 0

ObservedMin == CHOOSE t \in Observed : \A u \in Observed : t <= u
ObservedMax == CHOOSE t \in Observed : \A u \in Observed : u <= t

\* The report of the same call made without min and max.
WithoutBounds ==
    Checker_check_temporal_resolution(paths, files, None, None, call[4]).errors

-----------------------------------------------------------------------------
(* check_completeness: null values of the data variables, with or without *)
(* a mask.                                                                 *)

\* A null value of an array; the other values are 0 and 1.
NaN == -1
\* A one-dimensional DataArray over the dimension dim.
Array(dim, vals) == <<"array", dim, vals>>
DimOf(da) == da[2]
ValuesOf(da) == da[3]
\* The variables argument: a list or set of names.
PyVars(S) == <<"vars", S>>

\* da.isnull().any().
AnyNull(da) == \E k \in DOMAIN ValuesOf(da) : ValuesOf(da)[k] = NaN

\* ds[mask_variable].fillna(0) (check.py:393, 399).
fillna0(da) ==
    Array(DimOf(da), [k \in DOMAIN ValuesOf(da) |->
                         IF ValuesOf(da)[k] = NaN THEN 0 ELSE ValuesOf(da)[k]])

\* Mutation: a falsy mask position never constrains the variable.
Otherwise_Unconstrained(da, ensure_null, j) == TRUE

\* da.isnull() if ensure_null else 1, at position j (check.py:416).
Otherwise(da, ensure_null, j) ==
    IF Truthy(ensure_null) THEN ValuesOf(da)[j] = NaN ELSE TRUE

\* xr.where(mask, da.notnull(), da.isnull() if ensure_null else 1).all()
\* (check.py:415-417): "raise" when the two arrays share their dimension with
\* different sizes, else "true" or "false" as every selected value is true.  A mask of
\* None is a false condition everywhere; arrays over different dimensions
\* are broadcast against each other.
WhereAll(mask, da, ensure_null) ==
    IF mask = None
    THEN IF \A j \in DOMAIN ValuesOf(da) : Otherwise(da, ensure_null, j)
         THEN "true" ELSE "false"
    ELSE IF DimOf(mask) = DimOf(da)
         THEN IF Len(ValuesOf(mask)) # Len(ValuesOf(da)) THEN "raise"
              ELSE IF \A j \in DOMAIN ValuesOf(da) :
                         IF ValuesOf(mask)[j] # 0
                         THEN ValuesOf(da)[j] # NaN
                         ELSE Otherwise(da, ensure_null, j)
                   THEN "true" ELSE "false"
         ELSE IF \A m \in DOMAIN ValuesOf(mask) : \A j \in DOMAIN ValuesOf(da) :
                    IF ValuesOf(mask)[m] # 0
                    THEN ValuesOf(da)[j] # NaN
                    ELSE Otherwise(da, ensure_null, j)
              THEN "true" ELSE "false"

\* check.py:413-418 for one variable: "fail" when it is added to
\* errors[path], "ok" when it is not, "raise" when xr.where raises.
VarOutcome(mask, da, ensure_null) ==
    IF mask = None /\ AnyNull(da) THEN "fail"
    ELSE LET w == WhereAll(mask, da, ensure_null)
         IN  IF w = "raise" THEN "raise" ELSE IF w = "true" THEN "ok" ELSE "fail"

\* check.py:401-409: the variables checked when none are requested.
DefaultVariables(ds, mask) ==
    IF mask = None THEN DOMAIN ds
    ELSE {var \in DOMAIN ds : {DimOf(mask)} \subseteq {DimOf(ds[var])}}

\* for path in self.paths_iterator: check.py:396-418.  mask and variables
\* are assigned once and kept for the following paths.
RECURSIVE CompletenessLoop(_, _, _, _, _, _, _)
CompletenessLoop(ps, fs, mask, mask_variable, variables, ensure_null, errs) ==
    IF ps = <<>> THEN Return(errs)
    ELSE LET path == Head(ps)
             ds == fs[path].data_vars
             takes_mask == mask = None /\ Truthy(mask_variable)
             mask1 == IF takes_mask THEN fillna0(ds[mask_variable[2]]) ELSE mask
             variables1 == IF variables = None
                           THEN PyVars(DefaultVariables(ds, mask1))
                           ELSE variables
             outcomes == [var \in variables1[2] |->
                             VarOutcome(mask1, ds[var], ensure_null)]
             failing == {var \in variables1[2] : outcomes[var] = "fail"}
         IN  IF takes_mask /\ mask_variable[2] \notin DOMAIN ds
             THEN Raise
             ELSE IF \E var \in variables1[2] : var \notin DOMAIN ds
             THEN Raise
             ELSE IF \E var \in variables1[2] : outcomes[var] = "raise"
             THEN Raise
             ELSE CompletenessLoop(Tail(ps), fs, mask1, mask_variable,
                                   variables1, ensure_null,
                                   IF failing = {} THEN errs
                                   ELSE errs @@ (path :> PySet(failing)))

\* check.py:363-420.  all_files holds the matched files and the mask file;
\* Checker.paths raises when nothing matched.
Checker_check_completeness(ps, all_files, mask_variable, mask_file, variables, ensure_null) ==
    IF Truthy(mask_file) /\ mask_variable = None THEN Raise
    ELSE IF Truthy(mask_file)
            /\ mask_variable[2] \notin DOMAIN all_files[mask_file[2]].data_vars
    THEN Raise
    ELSE IF ps = <<>> THEN Raise
    ELSE LET mask == IF Truthy(mask_file)
                     THEN fillna0(all_files[mask_file[2]].data_vars[mask_variable[2]])
                     ELSE None
         IN  CompletenessLoop(ps, all_files, mask, mask_variable, variables,
                              ensure_null, EmptyDict)

\* The data variables of a file checked without a mask: complete, with a
\* null value, or empty.
UnmaskedArrays ==
    {Array("x", <<1, 1>>), Array("x", <<NaN, 1>>), Array("x", <<>>)}

UnmaskedDatasets == UNION {[S -> UnmaskedArrays] : S \in SUBSET Vars}

InitCompleteness ==
    /\ config = ValidConfig
    /\ paths \in PathLists(MaxPaths)
    /\ files \in [Range(paths) ->
                    {[EmptyFile EXCEPT !.data_vars = ds] : ds \in UnmaskedDatasets}]
    /\ call = <<"none">>
    /\ errors = EmptyDict
    /\ raised = FALSE
    /\ NoRun

\* A call of Checker.check_completeness without a mask (check.py:363-420):
\* mask_variable is None and mask_file is None or "".
check_completeness ==
    /\ NotCalled
    /\ \E mask_file \in {None, PyStr("")} :
       \E variables \in {None} \cup {PyVars(S) : S \in SUBSET Vars} :
       \E ensure_null \in {None, PyBool(FALSE), PyBool(TRUE)} :
          LET r == Checker_check_completeness(paths, files, None, mask_file,
                                              variables, ensure_null)
          IN  /\ call' = <<"check_completeness", None, mask_file, variables,
                           ensure_null>>
              /\ errors' = r.errors
              /\ raised' = r.raised
    /\ UNCHANGED <<config, paths, files>>
    /\ UNCHANGED RunVars

NextCompleteness == check_completeness

SpecCompleteness == InitCompleteness /\ [][NextCompleteness]_vars

\* The variables requested of a file: the given ones, by default all the
\* data variables of the file.
Requested(path, variables) ==
    IF variables = None THEN DOMAIN files[path].data_vars ELSE variables[2]

Reported(path) ==
    IF path \in DOMAIN errors THEN errors[path][2] ELSE {}

\* C10: without a mask and for any ensure_null, a returned report holds the
\* variable v under the file f iff v is requested and has a null value in
\* f, and a file without such a variable has no entry.
C10_NoMaskReport ==
    (call[1] = "check_completeness" /\ ~raised) =>
        /\ \A path \in Range(paths) :
              Reported(path) =
                  {v \in Requested(path, call[4]) \cap DOMAIN files[path].data_vars :
                      AnyNull(files[path].data_vars[v])}
        /\ \A path \in DOMAIN errors :
              path \in Range(paths) /\ Reported(path) # {}

\* What holds of the code: C10 when ensure_null is false or None and the
\* variables are requested by name.
C10_NoMaskReportWithoutEnsureNull ==
    (call[1] = "check_completeness" /\ ~raised /\ ~Truthy(call[5])
        /\ call[4] # None) =>
        /\ \A path \in Range(paths) :
              Reported(path) =
                  {v \in Requested(path, call[4]) \cap DOMAIN files[path].data_vars :
                      AnyNull(files[path].data_vars[v])}
        /\ \A path \in DOMAIN errors :
              path \in Range(paths) /\ Reported(path) # {}

\* The variables the call looks up in every matched file: the requested
\* ones, by default the data variables of the first file.
LookedUp ==
    IF call[4] # None THEN call[4][2] ELSE DOMAIN files[paths[1]].data_vars

\* Some matched file lacks a variable that the call looks up in it.
LacksVariable ==
    \E path \in Range(paths) : \E var \in LookedUp :
        var \notin DOMAIN files[path].data_vars

\* C22: a completeness check over matched files ends by returning a
\* report, never by raising, also when a file lacks a requested variable.
C22_ReportedNotRaised ==
    (call[1] = "check_completeness" /\ paths # <<>>) => ~raised

\* What holds of the code: over matched files the completeness check
\* raises exactly when a file lacks a variable looked up in it.
C22_RaisesOnMissingVariable ==
    (call[1] = "check_completeness" /\ paths # <<>>) =>
        (raised <=> LacksVariable)

\* One file holding v alone, checked on v and w: the call raised and
\* returned no report.
C22_Witness ==
    /\ call[1] = "check_completeness"
    /\ call[4] = PyVars({"v", "w"})
    /\ paths = <<"f1">>
    /\ DOMAIN files["f1"].data_vars = {"v"}
    /\ raised
    /\ errors = EmptyDict

-----------------------------------------------------------------------------
(* check_completeness with a mask, from mask_file or from the matched     *)
(* files.                                                                  *)

mask_name == "m"
mask_path == "mask.nc"

\* The variable v of a matched file, over the mask's dimension or another.
MaskedArrays ==
    {Array("x", <<1, 1>>), Array("x", <<NaN, 1>>), Array("x", <<1, NaN>>),
     Array("x", <<NaN, NaN>>), Array("y", <<NaN, NaN>>), Array("y", <<1, NaN>>)}

\* The mask variable of a matched file, when it has one.
FileMasks == {Array("x", <<NaN, 1>>), Array("x", <<1, 0>>)}

\* The mask variable of the mask file.
MaskFileMasks == {Array("x", <<NaN, 1>>), Array("x", <<1, 1>>)}

MaskedDatasets ==
    {("v" :> v) : v \in MaskedArrays}
        \cup {("v" :> v) @@ (mask_name :> m) : v \in MaskedArrays, m \in FileMasks}

InitMasked ==
    /\ config = ValidConfig
    /\ paths \in PathLists(MaxPaths)
    /\ \E matched \in [Range(paths) ->
                         {[EmptyFile EXCEPT !.data_vars = ds] : ds \in MaskedDatasets}] :
       \E m \in MaskFileMasks :
          files = matched @@
                  (mask_path :> [EmptyFile EXCEPT !.data_vars = (mask_name :> m)])
    /\ call = <<"none">>
    /\ errors = EmptyDict
    /\ raised = FALSE
    /\ NoRun

\* A call of Checker.check_completeness with mask_variable or mask_file
\* given (check.py:363-420).
check_completeness_with_mask ==
    /\ NotCalled
    /\ \E mask_variable \in {None, PyStr(mask_name)} :
       \E mask_file \in {None, PyStr(mask_path)} :
       \E variables \in {None, PyVars({"v"}), PyVars({"v", mask_name})} :
       \E ensure_null \in {None, PyBool(FALSE), PyBool(TRUE)} :
          /\ mask_variable # None \/ mask_file # None
          /\ LET r == Checker_check_completeness(paths, files, mask_variable,
                                                 mask_file, variables, ensure_null)
             IN  /\ call' = <<"check_completeness", mask_variable, mask_file,
                              variables, ensure_null>>
                 /\ errors' = r.errors
                 /\ raised' = r.raised
    /\ UNCHANGED <<config, paths, files>>
    /\ UNCHANGED RunVars

NextMasked == check_completeness_with_mask

SpecMasked == InitMasked /\ [][NextMasked]_vars

\* The mask a file is to be checked against: the mask file's when mask_file
\* is given, else the file's own mask variable.
MaskFor(path) ==
    IF Truthy(call[3]) THEN files[call[3][2]].data_vars[call[2][2]]
    ELSE files[path].data_vars[call[2][2]]

\* The variables to check in a file: the requested ones, by default the
\* file's data variables whose dimensions include the mask's.
CheckedWithMask(path) ==
    IF call[4] # None THEN call[4][2]
    ELSE {var \in DOMAIN files[path].data_vars :
             DimOf(MaskFor(path)) = DimOf(files[path].data_vars[var])}

\* The positions of a variable against a mask: the shared positions on one
\* dimension, every pair on two.
MaskPositions(mask, da) ==
    IF DimOf(mask) = DimOf(da)
    THEN {<<k, k>> : k \in DOMAIN ValuesOf(da)}
    ELSE (DOMAIN ValuesOf(mask)) \X (DOMAIN ValuesOf(da))

MaskTruthy(mask, k) == ValuesOf(mask)[k] \notin {NaN, 0}

\* The consistency rule broken at some position.
BreaksRule(mask, da, ensure_null) ==
    \E pos \in MaskPositions(mask, da) :
        \/ MaskTruthy(mask, pos[1]) /\ ValuesOf(da)[pos[2]] = NaN
        \/ ~MaskTruthy(mask, pos[1]) /\ Truthy(ensure_null)
              /\ ValuesOf(da)[pos[2]] # NaN

\* A returned call with a mask in which every matched file has the same
\* mask and the same variables to check.
SameMaskAndVariables ==
    /\ call[1] = "check_completeness" /\ ~raised
    /\ Truthy(call[2])
    /\ Truthy(call[3]) \/ \A p \in Range(paths) :
                             call[2][2] \in DOMAIN files[p].data_vars
    /\ \A p, q \in Range(paths) :
          /\ MaskFor(p) = MaskFor(q)
          /\ CheckedWithMask(p) = CheckedWithMask(q)

C18_PerFileMask ==
    (/\ call[1] = "check_completeness" /\ ~raised
     /\ Truthy(call[2]) /\ ~Truthy(call[3])
     /\ \A path \in Range(paths) : mask_name \in DOMAIN files[path].data_vars
     /\ call[4] # None) =>
        \A path \in Range(paths) :
            \A var \in call[4][2] :
                var \in Reported(path) <=>
                    BreaksRule(files[path].data_vars[mask_name],
                               files[path].data_vars[var], call[5])

\* Two files checked on v with mask_variable alone: the first has the mask
\* [null, 1], the second the mask [1, 0] and v = [null, 1], null where its
\* own mask is set; nothing is reported, as the first file's mask is the one
\* applied to both.
C18_Witness ==
    /\ call = <<"check_completeness", PyStr(mask_name), None, PyVars({"v"}), None>>
    /\ ~raised
    /\ paths = <<"f1", "f2">>
    /\ files["f1"].data_vars[mask_name] = Array("x", <<NaN, 1>>)
    /\ files["f2"].data_vars = ("v" :> Array("x", <<NaN, 1>>))
                                  @@ (mask_name :> Array("x", <<1, 0>>))
    /\ errors = EmptyDict

\* C19: in a returned report made with the mask of mask_file, every matched
\* file, the first or not, is reported with the variables that break the
\* rule among the requested ones when variables is given, and among the
\* file's own data variables whose dimensions include the mask's when it
\* is omitted.
C19_CheckedPerFile ==
    (/\ call[1] = "check_completeness" /\ ~raised
     /\ Truthy(call[2]) /\ Truthy(call[3])) =>
        \A path \in Range(paths) :
            Reported(path) =
                {var \in CheckedWithMask(path) :
                    BreaksRule(MaskFor(path), files[path].data_vars[var], call[5])}

\* What holds of the code: C19 for the first matched file.
C19_CheckedFirstFile ==
    (/\ call[1] = "check_completeness" /\ ~raised
     /\ Truthy(call[2]) /\ Truthy(call[3])) =>
        Reported(paths[1]) =
            {var \in CheckedWithMask(paths[1]) :
                BreaksRule(MaskFor(paths[1]), files[paths[1]].data_vars[var], call[5])}

\* Two files checked against the mask [1, 1] of the mask file with
\* variables omitted: the first holds v over another dimension, the second
\* holds v over the mask's dimension with a null; nothing is reported, as
\* the empty list found for the first file is the one used for both.
C19_Witness ==
    /\ call = <<"check_completeness", PyStr(mask_name), PyStr(mask_path), None, None>>
    /\ ~raised
    /\ paths = <<"f1", "f2">>
    /\ files[mask_path].data_vars[mask_name] = Array("x", <<1, 1>>)
    /\ files["f1"].data_vars = ("v" :> Array("y", <<1, NaN>>))
    /\ files["f2"].data_vars = ("v" :> Array("x", <<NaN, 1>>))
    /\ errors = EmptyDict

-----------------------------------------------------------------------------
(* check_horizontal_resolution and check_vertical_resolution: the grid and *)
(* z-axis descriptions printed by cdo, compared as strings.                *)

\* str(v) of an expected value (check.py:425).
Str(v) ==
    CASE v[1] = "str" -> v
      [] v[1] = "int" -> PyStr(Digit(v[2]))
      [] v[1] = "float" -> PyStr(Digit(v[2]) \o "." \o Digit(v[3]))
      [] v[1] = "none" -> PyStr("None")

\* part.strip() after the quotes are removed (check.py:59-61), for the
\* parts of the description lines of the model.
Stripped(part) ==
    CASE part = "xinc " -> "xinc"
      [] part = "yinc " -> "yinc"
      [] part = " 2" -> "2"
      [] part = " '2'" -> "2"
      [] part = " -2" -> "-2"
      [] part = " " -> ""
      [] OTHER -> part

\* check.py:55-62.  A line is the sequence of its parts around "=": a line
\* of one part holds no "=" and is skipped, a line of three parts cannot be
\* unpacked into key and value and raises.
RECURSIVE cdo_des_to_dict(_, _)
cdo_des_to_dict(lines, desdict) ==
    IF lines = <<>> THEN Return(desdict)
    ELSE LET string == Head(lines)
         IN  IF Len(string) = 1 THEN cdo_des_to_dict(Tail(lines), desdict)
             ELSE IF Len(string) # 2 THEN Raise
             ELSE LET key == Stripped(string[1])
                      value == PyStr(Stripped(string[2]))
                  IN  cdo_des_to_dict(
                          Tail(lines),
                          (key :> value) @@ desdict)

\* Mutation: the empty string is a placeholder, as in the attribute checks.
RECURSIVE SpatialLoop_Placeholder(_, _, _, _, _)
SpatialLoop_Placeholder(ps, fs, destype, expected_attrs, errs) ==
    IF ps = <<>> THEN Return(errs)
    ELSE LET path == Head(ps)
             actual_attrs == cdo_des_to_dict(fs[path][destype], EmptyDict)
             error == check_attributes_or_sizes(expected_attrs,
                                                actual_attrs.errors, FALSE)
         IN  IF actual_attrs.raised THEN Raise
             ELSE SpatialLoop_Placeholder(
                      Tail(ps), fs, destype, expected_attrs,
                      IF error # EmptyDict THEN errs @@ (path :> PyDict(error))
                      ELSE errs)

\* for path in self.paths_iterator: check.py:427-433.
RECURSIVE SpatialLoop(_, _, _, _, _)
SpatialLoop(ps, fs, destype, expected_attrs, errs) ==
    IF ps = <<>> THEN Return(errs)
    ELSE LET path == Head(ps)
             actual_attrs == cdo_des_to_dict(fs[path][destype], EmptyDict)
             error == check_attributes_or_sizes(expected_attrs,
                                                actual_attrs.errors, TRUE)
         IN  IF actual_attrs.raised THEN Raise
             ELSE SpatialLoop(Tail(ps), fs, destype, expected_attrs,
                              IF error # EmptyDict
                              THEN errs @@ (path :> PyDict(error))
                              ELSE errs)

\* check.py:422-434; Checker.paths raises when nothing matched.
check_spatial_resolution(ps, fs, destype, expected_attrs) ==
    IF ps = <<>> THEN Raise
    ELSE SpatialLoop(ps, fs, destype,
                     [k \in DOMAIN expected_attrs |-> Str(expected_attrs[k])],
                     EmptyDict)

\* What cdo -griddes prints for a file.
GridDescriptions ==
    { <<>>,
      << <<"#">>, <<"xinc ", " 2">>, <<"yinc ", " -2">> >>,
      << <<"xinc ", " '2'">> >>,
      << <<"xinc ", " ">>, <<"yinc ", " 2">>, <<"yinc ", " ">> >>,
      << <<"xinc ", " 2">>, <<"a ", " b ", " c">> >> }

\* What cdo -zaxisdes prints for a file.
ZaxisDescriptions ==
    { << <<"xinc ", " 2">> >>, << <<"yinc ", " ">> >> }

\* The sections [horizontal_resolution] and [vertical_resolution].
ExpectedDescriptions ==
    UNION {[S -> {PyStr("2"), PyInt(2), PyStr("")}] : S \in SUBSET {"xinc", "yinc"}}

InitSpatial ==
    /\ config = ValidConfig
    /\ paths \in PathLists(MaxPaths)
    /\ files \in [Range(paths) ->
                    {[EmptyFile EXCEPT !.griddes = g, !.zaxisdes = z] :
                        g \in GridDescriptions, z \in ZaxisDescriptions}]
    /\ call = <<"none">>
    /\ errors = EmptyDict
    /\ raised = FALSE
    /\ NoRun

\* check.py:436-449.
check_horizontal_resolution ==
    /\ NotCalled
    /\ \E expected_griddes \in ExpectedDescriptions :
          LET r == check_spatial_resolution(paths, files, "griddes", expected_griddes)
          IN  /\ call' = <<"check_spatial_resolution", "griddes", expected_griddes>>
              /\ errors' = r.errors
              /\ raised' = r.raised
    /\ UNCHANGED <<config, paths, files>>
    /\ UNCHANGED RunVars

\* check.py:451-464.
check_vertical_resolution ==
    /\ NotCalled
    /\ \E expected_zaxisdes \in ExpectedDescriptions :
          LET r == check_spatial_resolution(paths, files, "zaxisdes", expected_zaxisdes)
          IN  /\ call' = <<"check_spatial_resolution", "zaxisdes", expected_zaxisdes>>
              /\ errors' = r.errors
              /\ raised' = r.raised
    /\ UNCHANGED <<config, paths, files>>
    /\ UNCHANGED RunVars

NextSpatial == check_horizontal_resolution \/ check_vertical_resolution

SpecSpatial == InitSpatial /\ [][NextSpatial]_vars

\* The description extracted from a file for the call made.
Extracted(path) == cdo_des_to_dict(files[path][call[2]], EmptyDict).errors

\* C12: in a returned report of the horizontal or vertical resolution
\* check, a file's entry holds exactly the provided keys that the extracted
\* description lacks, with null, and those whose expected value as a string
\* differs from the extracted value, with the extracted value; an expected
\* "" is reported unless the extracted value is "".
C12_SpatialReport ==
    (call[1] = "check_spatial_resolution" /\ ~raised) =>
        /\ DOMAIN errors \subseteq Range(paths)
        /\ \A path \in Range(paths) :
              LET expected == call[3]
                  actual == Extracted(path)
                  wrong == {k \in DOMAIN expected :
                               k \notin DOMAIN actual \/ actual[k] # Str(expected[k])}
              IN  /\ path \in DOMAIN errors <=> wrong # {}
                  /\ path \in DOMAIN errors =>
                        /\ DOMAIN errors[path][2] = wrong
                        /\ \A k \in wrong :
                              errors[path][2][k] =
                                  IF k \in DOMAIN actual THEN actual[k] ELSE None
                  /\ \A k \in DOMAIN expected \cap DOMAIN actual :
                        expected[k] = PyStr("") =>
                            (k \in wrong <=> actual[k] # PyStr(""))

\* The grid description xinc = '2' checked against xinc = "" and yinc = 2
\* given as a number: both are reported, xinc with its value.
C12_Witness ==
    /\ call = <<"check_spatial_resolution", "griddes",
                [xinc |-> PyStr(""), yinc |-> PyInt(2)]>>
    /\ ~raised
    /\ Len(paths) = 1
    /\ files[paths[1]].griddes = << <<"xinc ", " '2'">> >>
    /\ errors = (paths[1] :> PyDict([xinc |-> PyStr("2"), yinc |-> None]))

-----------------------------------------------------------------------------
(* check_cf_compliance: the messages of the CF checker, filtered. *)

Categories == {"FATAL", "ERROR", "WARN", "INFO", "VERSION"}

\* The messages the CF checker holds for one scope (the file or one of its
\* variables), by category.
NoMessages == [c \in Categories |-> <<>>]
ScopeMessages ==
    { NoMessages,
      [NoMessages EXCEPT !["WARN"] = <<"w">>, !["INFO"] = <<"i">>,
                         !["VERSION"] = <<"CF-1.7">>],
      [NoMessages EXCEPT !["ERROR"] = <<"e">>, !["INFO"] = <<"i">>],
      [NoMessages EXCEPT !["FATAL"] = <<"f">>, !["ERROR"] = <<"e1", "e2">>,
                         !["WARN"] = <<"w">>] }

\* inst.results after inst.checker(path): the messages of the file and of
\* each of its variables.  The second variable has no error of its own.
CFResults ==
    { [global |-> g, variables |-> vs] :
        g \in ScopeMessages,
        vs \in {EmptyDict} \cup {("v" :> m) : m \in ScopeMessages}
                 \cup {("v" :> m) @@ ("w" :> NoMessages) : m \in ScopeMessages} }

\* "\n".join(to_keep).
RECURSIVE Join(_)
Join(strings) ==
    IF Len(strings) = 1 THEN Head(strings)
    ELSE Head(strings) \o "\n" \o Join(Tail(strings))

\* Mutation: the errors come before the fatal messages.
to_keep_ErrorsFirst(value) == value["ERROR"] \o value["FATAL"]

\* check.py:68: value["FATAL"] + value["ERROR"].
to_keep(value) == value["FATAL"] \o value["ERROR"]

\* check.py:65-74 on a mapping of mappings: a mapping with an ERROR or FATAL
\* key becomes the joined string of its messages or is removed, any other
\* mapping is filtered in turn and kept.
RECURSIVE filter_cfchecker_results(_)
filter_cfchecker_results(results) ==
    LET IsMessages(key) == {"ERROR", "FATAL"} \cap DOMAIN results[key] # {}
        kept == {key \in DOMAIN results :
                    IsMessages(key) => to_keep(results[key]) # <<>>}
    IN  [key \in kept |->
            IF IsMessages(key)
            THEN PyStr(Join(to_keep(results[key])))
            ELSE PyDict(filter_cfchecker_results(results[key]))]

\* inst.get_counts(): the messages of the file by category.
RECURSIVE SumLen(_, _, _)
SumLen(variables, todo, category) ==
    IF todo = {} THEN 0
    ELSE LET var == CHOOSE x \in todo : TRUE
         IN  Len(variables[var][category])
                 + SumLen(variables, todo \ {var}, category)

get_counts(results) ==
    [c \in Categories |->
        Len(results.global[c])
            + SumLen(results.variables, DOMAIN results.variables, c)]

\* cfchecker.cfchecks.cfVersions, sorted, and repr of the list.
cfVersions == <<"CF-1.6", "CF-1.7">>
cfVersionsRepr == "['CF-1.6', 'CF-1.7']"

\* str(CFVersion(str(version))) for the versions of the model.
CFVersion(version) == "CF-" \o Str(version)[2]

\* check.py:285-288.
NotAvailable(version) ==
    PyStr("version=" \o CFVersion(version) \o " is not available.\n"
            \o "Available versions: " \o cfVersionsRepr \o ".")

\* check.py:303-306: {k: v for k, v in results.items() if v}.
NonEmpty(results) ==
    [k \in {key \in DOMAIN results : results[key] # PyDict(EmptyDict)} |->
        results[k]]

\* for path in self.paths_iterator: check.py:280-306.  A file that is not
\* NetCDF is written to a temporary NetCDF file, which the checker reads in
\* its place (check.py:293-300).
RECURSIVE CFLoop(_, _, _, _)
CFLoop(ps, fs, version, errs) ==
    IF ps = <<>> THEN errs
    ELSE LET path == Head(ps)
             results == fs[path].cf
             counts == get_counts(results)
         IN  IF Truthy(version) /\ CFVersion(version) \notin Range(cfVersions)
             THEN CFLoop(Tail(ps), fs, version,
                         errs @@ (path :> NotAvailable(version)))
             ELSE IF counts["ERROR"] # 0 \/ counts["FATAL"] # 0
             THEN CFLoop(Tail(ps), fs, version,
                         errs @@ (path :>
                             PyDict(NonEmpty(filter_cfchecker_results(results)))))
             ELSE CFLoop(Tail(ps), fs, version, errs)

\* check.py:252-307; Checker.paths raises when nothing matched.
Checker_check_cf_compliance(ps, fs, version) ==
    IF ps = <<>> THEN Raise
    ELSE Return(CFLoop(ps, fs, version, EmptyDict))

\* The version argument: absent, false, known or unknown to the checker.
VersionArguments == {None, PyInt(0), PyStr("1.7"), PyFloat(1, 6), PyFloat(9, 9)}

InitCF ==
    /\ \E tag \in {"GRIB", "NETCDF"} :
          config = [ValidConfig EXCEPT !.files_format = tag]
    /\ paths \in PathLists(MaxPaths)
    /\ files \in [Range(paths) ->
                    {[EmptyFile EXCEPT !.cf = r] : r \in CFResults}]
    /\ call = <<"none">>
    /\ errors = EmptyDict
    /\ raised = FALSE
    /\ NoRun

\* A call of Checker.check_cf_compliance (check.py:252-307).
check_cf_compliance ==
    /\ NotCalled
    /\ \E version \in VersionArguments :
          LET r == Checker_check_cf_compliance(paths, files, version)
          IN  /\ call' = <<"check_cf_compliance", version>>
              /\ errors' = r.errors
              /\ raised' = r.raised
    /\ UNCHANGED <<config, paths, files>>
    /\ UNCHANGED RunVars

NextCF == check_cf_compliance

SpecCF == InitCF /\ [][NextCF]_vars

\* The FATAL then ERROR messages of a scope.
Retained(messages) == messages["FATAL"] \o messages["ERROR"]

\* The variables of a file with a retained message.
RetainedVariables(path) ==
    {var \in DOMAIN files[path].cf.variables :
        Retained(files[path].cf.variables[var]) # <<>>}

\* The file has an ERROR or FATAL message in some scope.
CountedErrors(path) ==
    Retained(files[path].cf.global) # <<>> \/ RetainedVariables(path) # {}

\* The version asked for is one the CF checker knows, or none is asked for.
VersionAvailable(version) ==
    ~Truthy(version) \/ CFVersion(version) \in Range(cfVersions)

\* The entry of a file holds the retained messages of each scope, joined,
\* and no scope without a retained message.
FilteredEntry(path) ==
    LET entry == errors[path][2]
        cf == files[path].cf
    IN  /\ errors[path][1] = "dict"
        /\ DOMAIN entry \subseteq {"global", "variables"}
        /\ "global" \in DOMAIN entry <=> Retained(cf.global) # <<>>
        /\ "global" \in DOMAIN entry =>
              entry["global"] = PyStr(Join(Retained(cf.global)))
        /\ "variables" \in DOMAIN entry <=> RetainedVariables(path) # {}
        /\ "variables" \in DOMAIN entry =>
              /\ entry["variables"][1] = "dict"
              /\ DOMAIN entry["variables"][2] = RetainedVariables(path)
              /\ \A var \in RetainedVariables(path) :
                    entry["variables"][2][var] =
                        PyStr(Join(Retained(cf.variables[var])))

\* C13 as stated: a file is recorded only when the checker counted an ERROR
\* or FATAL message for it, and its entry holds only the FATAL and ERROR
\* messages of each scope, FATAL first, without the emptied scopes.
C13_Original ==
    (call[1] = "check_cf_compliance" /\ ~raised) =>
        \A path \in DOMAIN errors :
            /\ path \in Range(paths)
            /\ CountedErrors(path)
            /\ FilteredEntry(path)

\* C13 amended: when the version asked for is known to the checker or none
\* is asked for, a file is recorded iff the checker counted an ERROR or
\* FATAL message for it, and its entry holds only the FATAL and ERROR
\* messages of each scope, FATAL first, without the emptied scopes.
C13_FilteredReport ==
    (call[1] = "check_cf_compliance" /\ ~raised /\ VersionAvailable(call[2])) =>
        /\ DOMAIN errors \subseteq Range(paths)
        /\ \A path \in Range(paths) :
              /\ path \in DOMAIN errors <=> CountedErrors(path)
              /\ path \in DOMAIN errors => FilteredEntry(path)

\* A file with fatal, error and warning messages of its own, a variable
\* with an error and a variable without: the entry holds the two joined
\* strings and not the second variable.
C13_Witness ==
    /\ call = <<"check_cf_compliance", PyStr("1.7")>>
    /\ ~raised
    /\ Len(paths) = 1
    /\ errors = (paths[1] :>
          PyDict([global |-> PyStr("f\ne1\ne2"),
                  variables |-> PyDict([v |-> PyStr("e")])]))
    /\ DOMAIN files[paths[1]].cf.variables = {"v", "w"}

-----------------------------------------------------------------------------
\* Checker.check_cf_compliance step by step (check.py:265-307): the
\* temporary directory, the temporary sample files and the files handed to
\* the CF checker.  call is <<"cf_compliance", version, tmp>>, tmp holding
\* whether the temporary directory exists, the temporary sample files that
\* exist (named after the file they are written from, each with what was
\* written to it) and the files handed to inst.checker with their sizes.

\* check.py:281: the version asked for is not one the CF checker knows.
Unavailable_Never(version) == FALSE

Unavailable(version) ==
    Truthy(version) /\ CFVersion(version) \notin Range(cfVersions)

\* check.py:295-297: ds.isel(**{dim: [0] for dim, size in ds.sizes.items()
\* if size}), as the sizes of the result.
isel_first(sizes) ==
    [dim \in DOMAIN sizes |-> IF sizes[dim] # PyInt(0) THEN PyInt(1) ELSE sizes[dim]]

\* check.py:298: the dataset written to the temporary file is the one
\* self.backend(path).ds opens again, not the selection made above.
to_netcdf(sizes) == sizes

\* check.py:302-306 for one file.
record_counts(path, results, errs) ==
    LET counts == get_counts(results)
    IN  IF counts["ERROR"] # 0 \/ counts["FATAL"] # 0
        THEN errs @@ (path :> PyDict(NonEmpty(filter_cfchecker_results(results))))
        ELSE errs

\* The sizes of the dimensions of a file, and what the CF checker finds in
\* it: nothing, or an error of the file.
DatasetSizes ==
    {("x" :> PyInt(1)), ("x" :> PyInt(2)),
     ("x" :> PyInt(2)) @@ ("y" :> PyInt(0))}

StepResults ==
    {[global |-> g, variables |-> EmptyDict] :
        g \in {NoMessages, [NoMessages EXCEPT !["ERROR"] = <<"e">>]}}

NoTemporary == [dir |-> FALSE, samples |-> EmptyDict, handed |-> <<>>]

InitCFSteps ==
    /\ \E tag \in {"GRIB", "NETCDF"} :
          config = [ValidConfig EXCEPT !.files_format = tag]
    /\ paths \in PathLists(MaxPaths)
    /\ files \in [Range(paths) ->
                    {[EmptyFile EXCEPT !.global_sizes = s, !.cf = r] :
                        s \in DatasetSizes, r \in StepResults}]
    /\ call = <<"none">>
    /\ errors = EmptyDict
    /\ raised = FALSE
    /\ NoRun

CFStepVars == <<counter, summary, trace, exit_code>>

tmp == call[3]

\* check.py:265-272: the call is made and the temporary directory created.
cf_enter ==
    /\ pc = "idle" /\ NotCalled
    /\ \E version \in {None, PyStr("1.7"), PyFloat(9, 9)} :
          call' = <<"cf_compliance", version, [NoTemporary EXCEPT !.dir = TRUE]>>
    /\ pc' = "constructing"
    /\ UNCHANGED <<config, paths, files, i, errors, raised>>
    /\ UNCHANGED CFStepVars

\* check.py:273-280: the CF checker is constructed and the paths resolved.
cf_construct ==
    /\ pc = "constructing"
    /\ paths # <<>>
    /\ pc' = "loop"
    /\ i' = 1
    /\ UNCHANGED <<config, paths, files, call, errors, raised>>
    /\ UNCHANGED CFStepVars

\* check.py:281-289.
cf_not_available ==
    /\ pc = "loop" /\ i <= Len(paths)
    /\ Unavailable(call[2])
    /\ errors' = errors @@ (paths[i] :> NotAvailable(call[2]))
    /\ i' = i + 1
    /\ UNCHANGED <<config, paths, files, pc, call, raised>>
    /\ UNCHANGED CFStepVars

\* check.py:291-292 and 302-306: a NetCDF file is handed to the checker as
\* it is.
cf_check_netcdf ==
    /\ pc = "loop" /\ i <= Len(paths)
    /\ ~Unavailable(call[2])
    /\ config.files_format = "NETCDF"
    /\ call' = [call EXCEPT ![3].handed =
                   Append(@, <<paths[i], files[paths[i]].global_sizes>>)]
    /\ errors' = record_counts(paths[i], files[paths[i]].cf, errors)
    /\ i' = i + 1
    /\ UNCHANGED <<config, paths, files, pc, raised>>
    /\ UNCHANGED CFStepVars

\* check.py:294: with tempfile.NamedTemporaryFile(suffix=".nc") as tmpfile.
cf_create_sample ==
    /\ pc = "loop" /\ i <= Len(paths)
    /\ ~Unavailable(call[2])
    /\ config.files_format # "NETCDF"
    /\ call' = [call EXCEPT ![3].samples = @ @@ (paths[i] :> EmptyDict)]
    /\ pc' = "sample"
    /\ UNCHANGED <<config, paths, files, i, errors, raised>>
    /\ UNCHANGED CFStepVars

\* check.py:295-299: the dataset is opened, the selection made and the
\* temporary file written.
cf_write_sample ==
    /\ pc = "sample"
    /\ call' = [call EXCEPT ![3].samples =
                   [@ EXCEPT ![paths[i]] = to_netcdf(files[paths[i]].global_sizes)]]
    /\ pc' = "written"
    /\ UNCHANGED <<config, paths, files, i, errors, raised>>
    /\ UNCHANGED CFStepVars

\* check.py:300-306: the temporary file is handed to the checker and
\* removed at the end of its with block.
cf_check_sample ==
    /\ pc = "written"
    /\ call' = [call EXCEPT
                   ![3].handed = Append(@, <<paths[i], tmp.samples[paths[i]]>>),
                   ![3].samples = [p \in DOMAIN @ \ {paths[i]} |-> @[p]]]
    /\ errors' = record_counts(paths[i], files[paths[i]].cf, errors)
    /\ pc' = "loop"
    /\ i' = i + 1
    /\ UNCHANGED <<config, paths, files, raised>>
    /\ UNCHANGED CFStepVars

\* check.py:307: the loop is over, the temporary directory is removed at
\* the end of its with block and the report returned.
cf_return ==
    /\ pc = "loop" /\ i = Len(paths) + 1
    /\ call' = [call EXCEPT ![3].dir = FALSE]
    /\ pc' = "done"
    /\ UNCHANGED <<config, paths, files, i, errors, raised>>
    /\ UNCHANGED CFStepVars

\* Mutation: an exception leaves the call without the with blocks being
\* exited.
cf_raise_NoCleanup ==
    /\ \/ pc \in {"constructing", "sample", "written"}
       \/ pc = "loop" /\ i <= Len(paths) /\ ~Unavailable(call[2])
             /\ config.files_format = "NETCDF"
    /\ errors' = EmptyDict
    /\ raised' = TRUE
    /\ pc' = "done"
    /\ UNCHANGED <<config, paths, files, i, call>>
    /\ UNCHANGED CFStepVars

\* An exception raised by the construction of the checker or the
\* resolution of the paths (check.py:273-280), by inst.checker on a NetCDF
\* file (check.py:292), or by opening, writing or checking a sample
\* (check.py:295-300): the with blocks it leaves remove the temporary file
\* and the temporary directory, and the call returns nothing.
cf_raise ==
    /\ \/ pc \in {"constructing", "sample", "written"}
       \/ pc = "loop" /\ i <= Len(paths) /\ ~Unavailable(call[2])
             /\ config.files_format = "NETCDF"
    /\ call' = [call EXCEPT ![3].dir = FALSE, ![3].samples = EmptyDict]
    /\ errors' = EmptyDict
    /\ raised' = TRUE
    /\ pc' = "done"
    /\ UNCHANGED <<config, paths, files, i>>
    /\ UNCHANGED CFStepVars

NextCFSteps ==
    \/ cf_enter
    \/ cf_construct
    \/ cf_not_available
    \/ cf_check_netcdf
    \/ cf_create_sample
    \/ cf_write_sample
    \/ cf_check_sample
    \/ cf_return
    \/ cf_raise

SpecCFSteps == InitCFSteps /\ [][NextCFSteps]_vars

\* A call that returned gives the report of the call taken as a whole.
CFStepsAgree ==
    (pc = "done" /\ ~raised) =>
        errors = Checker_check_cf_compliance(paths, files, call[2]).errors

\* C25: when the version asked for is not one the CF checker knows, no
\* file is handed to the checker and no sample is written at any point of
\* the call, and the returned report holds under every matched file the
\* same text, which names the version and the available versions.
C25_UnavailableVersion ==
    (call[1] = "cf_compliance" /\ ~VersionAvailable(call[2])) =>
        /\ tmp.handed = <<>>
        /\ tmp.samples = EmptyDict
        /\ \A path \in DOMAIN errors :
              errors[path] =
                  PyStr("version=CF-" \o Str(call[2])[2] \o " is not available.\n"
                          \o "Available versions: ['CF-1.6', 'CF-1.7'].")
        /\ (pc = "done" /\ ~raised) => DOMAIN errors = Range(paths)

\* Two files checked against the version 9.9: both are recorded with the
\* text and neither was handed to the checker.
C25_Witness ==
    /\ call[1] = "cf_compliance" /\ call[2] = PyFloat(9, 9)
    /\ pc = "done" /\ ~raised
    /\ paths = <<"f1", "f2">>
    /\ errors["f1"] = errors["f2"]
    /\ tmp.handed = <<>>
    /\ files["f1"].cf # files["f2"].cf

\* C26: every file handed to the CF checker for a file that is not NetCDF
\* holds one element along each non-empty dimension of the dataset.
C26_SampleHanded ==
    (call[1] = "cf_compliance" /\ config.files_format # "NETCDF") =>
        \A k \in DOMAIN tmp.handed :
            LET sizes == files[tmp.handed[k][1]].global_sizes
                handed == tmp.handed[k][2]
            IN  /\ DOMAIN handed = DOMAIN sizes
                /\ \A dim \in DOMAIN sizes :
                      handed[dim] = IF sizes[dim] = PyInt(0) THEN PyInt(0)
                                    ELSE PyInt(1)

\* What holds of the code: the file handed to the checker has the sizes of
\* the whole dataset.
C26_FullDatasetHanded ==
    call[1] = "cf_compliance" =>
        \A k \in DOMAIN tmp.handed :
            tmp.handed[k][2] = files[tmp.handed[k][1]].global_sizes

\* A GRIB file with two elements along x: the temporary file handed to the
\* checker has two elements along x.
C26_Witness ==
    /\ call[1] = "cf_compliance"
    /\ config.files_format = "GRIB"
    /\ paths = <<"f1">>
    /\ files["f1"].global_sizes = ("x" :> PyInt(2))
    /\ tmp.handed = << <<"f1", ("x" :> PyInt(2))>> >>
    /\ pc = "done" /\ ~raised

\* C27: once a call of check_cf_compliance has ended, by returning or by
\* raising at any point, its temporary directory and its temporary sample
\* files are removed; during the call at most one sample file exists, and
\* only inside the temporary directory's lifetime.
C27_TemporariesRemoved ==
    call[1] = "cf_compliance" =>
        /\ Cardinality(DOMAIN tmp.samples) <= 1
        /\ tmp.samples # EmptyDict => tmp.dir
        /\ pc = "done" => (~tmp.dir /\ tmp.samples = EmptyDict)
        /\ pc # "done" => tmp.dir

\* Two GRIB files: the first was sampled and checked, the call raised
\* while the sample of the second existed, and nothing is left.
C27_Witness ==
    /\ call[1] = "cf_compliance"
    /\ config.files_format = "GRIB"
    /\ paths = <<"f1", "f2">>
    /\ pc = "done" /\ raised
    /\ i = 2
    /\ Len(tmp.handed) = 1
    /\ ~tmp.dir /\ tmp.samples = EmptyDict

-----------------------------------------------------------------------------
(* ConfigChecker.check: from the section of the configuration to the      *)
(* arguments of the check method.                                          *)

\* inspect.getfullargspec(method) without self (check.py:483-484): the
\* declared parameters and whether the method takes **kwargs, for the
\* methods at check.py:125, 165 and 363.
Signature(name) ==
    CASE name = "format" -> [args |-> {"version"}, varkw |-> FALSE]
      [] name = "completeness" ->
            [args |-> {"mask_variable", "mask_file", "variables", "ensure_null"},
             varkw |-> FALSE]
      [] name = "variable_attributes" -> [args |-> {}, varkw |-> TRUE]

\* Mutation: the whole section is passed to every method.
wire_kwargs_PassAll(spec, config_args) ==
    config_args @@ [arg \in spec.args |-> None]

\* check.py:485-487.
wire_kwargs(spec, config_args) ==
    LET kwargs == [arg \in spec.args |->
                      IF arg \in DOMAIN config_args THEN config_args[arg] ELSE None]
    IN  IF spec.varkw THEN config_args @@ kwargs ELSE kwargs

\* check.py:488-489: the arguments named in the warning, none without one.
extra_args(spec, config_args) ==
    IF spec.varkw THEN {} ELSE DOMAIN config_args \ spec.args

\* method(**kwargs) at check.py:490 for the method found at check.py:482.
Method(name, ps, fs, files_format, kwargs) ==
    CASE name = "format" ->
            Checker_check_format(ps, fs, files_format, kwargs["version"])
      [] name = "completeness" ->
            Checker_check_completeness(ps, fs, kwargs["mask_variable"],
                                       kwargs["mask_file"], kwargs["variables"],
                                       kwargs["ensure_null"])
      [] name = "variable_attributes" ->
            check_variable_attrs_or_sizes(ps, fs, "variable_attrs", kwargs)

\* check.py:479-499 over a configuration document: self.config[name] raises
\* KeyError when the document has no section of that name.
ConfigChecker_check_name(name, cfg, ps, fs) ==
    IF name \notin DOMAIN cfg.sections THEN Raise
    ELSE ConfigChecker_check(
             Method(name, ps, fs, cfg.files_format,
                    wire_kwargs(Signature(name), cfg.sections[name])),
             ps)

WiredChecks == {"format", "completeness", "variable_attributes"}

\* The sections of the three checks, with and without a key that names no
\* parameter.
WiredSections(name) ==
    CASE name = "format" ->
            {v @@ x : v \in Dicts({"version"}, {PyStr("1"), PyInt(2)}),
                      x \in Dicts({"foo"}, {PyStr("foo")})}
      [] name = "completeness" ->
            {v @@ e @@ x : v \in Dicts({"variables"}, {PyVars({"v"})}),
                           e \in Dicts({"ensure_null"}, {PyBool(FALSE)}),
                           x \in Dicts({"foo"}, {PyStr("foo")})}
      [] name = "variable_attributes" ->
            {EmptyDict, ("v" :> [a |-> PyStr("x")]), ("v" :> [a |-> PyStr("")]),
             ("w" :> [a |-> PyStr("x")])}

WiredConfigs ==
    {[keys |-> RequiredKeys, files_format |-> "GRIB", sections |-> EmptyDict]}
    \cup UNION {{[keys |-> RequiredKeys \cup {name}, files_format |-> "GRIB",
                   sections |-> (name :> section)] :
                     section \in WiredSections(name)} : name \in WiredChecks}

WiredFiles ==
    {[EmptyFile EXCEPT !.full_format = f, !.variable_attrs = va, !.data_vars = dv] :
        f \in {"GRIB1", "GRIB2"},
        va \in {EmptyDict, ("v" :> [a |-> PyStr("x")]), ("v" :> [a |-> PyStr("y")])},
        dv \in {("v" :> Array("x", <<1, 1>>)), ("v" :> Array("x", <<NaN, 1>>))}}

InitWiring ==
    /\ config \in WiredConfigs
    /\ paths \in PathLists(MaxPaths)
    /\ files \in [Range(paths) -> WiredFiles]
    /\ call = <<"none">>
    /\ errors = EmptyDict
    /\ raised = FALSE
    /\ NoRun

\* ConfigChecker.check(name) for a name that has a section (check.py:479-499).
check_section ==
    /\ NotCalled
    /\ \E name \in WiredChecks \cap DOMAIN config.sections :
          LET r == ConfigChecker_check_name(name, config, paths, files)
              spec == Signature(name)
          IN  /\ call' = <<"check_name", name,
                           PyDict(wire_kwargs(spec, config.sections[name])),
                           extra_args(spec, config.sections[name])>>
              /\ errors' = r.errors
              /\ raised' = r.raised
    /\ UNCHANGED <<config, paths, files>>
    /\ UNCHANGED RunVars

\* ConfigChecker.check(name) for a name without a section: check.py:480
\* raises KeyError before the method is looked up.
check_missing_section ==
    /\ NotCalled
    /\ \E name \in WiredChecks \ DOMAIN config.sections :
          LET r == ConfigChecker_check_name(name, config, paths, files)
          IN  /\ call' = <<"check_name", name, None, {}>>
              /\ errors' = r.errors
              /\ raised' = r.raised
    /\ UNCHANGED <<config, paths, files>>
    /\ UNCHANGED RunVars

NextWiring == check_section \/ check_missing_section

SpecWiring == InitWiring /\ [][NextWiring]_vars

\* The section without the keys that name no declared parameter.
DeclaredOnly(name, section) ==
    [k \in DOMAIN section \cap Signature(name).args |-> section[k]]

\* C15: a method without **kwargs is called with exactly its declared
\* parameters, each bound to the section's value or to None; the other keys
\* of the section are not passed, are named in a warning, and the result is
\* that of the section without them.  A method with **kwargs is called with
\* the whole section.
C15_Wiring ==
    (call[1] = "check_name" /\ call[2] \in DOMAIN config.sections) =>
        LET name == call[2]
            section == config.sections[name]
            kwargs == call[3][2]
            declared == Signature(name).args
            without == ConfigChecker_check_name(
                           name,
                           [config EXCEPT !.sections =
                               (name :> DeclaredOnly(name, section))],
                           paths, files)
        IN  IF Signature(name).varkw
            THEN kwargs = section /\ call[4] = {}
            ELSE /\ DOMAIN kwargs = declared
                 /\ \A arg \in declared :
                       kwargs[arg] =
                           IF arg \in DOMAIN section THEN section[arg] ELSE None
                 /\ call[4] = DOMAIN section \ declared
                 /\ raised = without.raised
                 /\ errors = without.errors

\* [format] version = "1", foo = "foo" over one GRIB2 file: version is
\* passed, foo is warned about, and the file is reported.
C15_Witness ==
    /\ call = <<"check_name", "format", PyDict([version |-> PyStr("1")]), {"foo"}>>
    /\ config.sections["format"] = [version |-> PyStr("1"), foo |-> PyStr("foo")]
    /\ Len(paths) = 1
    /\ errors = (files_pattern :> PyStr("GRIB2"))

\* A call of ConfigChecker.check for a name without a section has ended.
CalledWithoutSection ==
    call[1] = "check_name" /\ call[2] \notin DOMAIN config.sections

\* C23: ConfigChecker.check(name) for a name that has no section raises no
\* error and populates no result.
C23_MissingSectionIsSilent ==
    CalledWithoutSection => (~raised /\ errors = EmptyDict)

\* What holds of the code: the call raises at the lookup of the section,
\* with no argument bound and no result.
C23_MissingSectionRaises ==
    CalledWithoutSection => (raised /\ errors = EmptyDict /\ call[3] = None)

\* ConfigChecker.check("format") on a document without [format], over one
\* matched file: the call raised.
C23_Witness ==
    /\ call = <<"check_name", "format", None, {}>>
    /\ config.sections = EmptyDict
    /\ paths = <<"f1">>
    /\ raised

-----------------------------------------------------------------------------
\* A sequence of calls of ConfigChecker.check on one ConfigChecker
\* (check.py:467-499).  call is <<"checks_made", checker, made>>: the
\* Checker the cached property holds, None before its first read, and the
\* checks made so far, each with how it ended.

\* Mutation: the arguments bound for the method are written back into the
\* section (config_args.update(kwargs)).
config_args_after_WrittenBack(spec, config_args) ==
    wire_kwargs(spec, config_args) @@ config_args

\* check.py:480-490: what the section holds after a call.  kwargs is a new
\* dict, kwargs.update(config_args) writes into it alone, and the methods
\* rebind their parameters (check.py:336, 403, 425) without writing into
\* the values they were given.
config_args_after(spec, config_args) == config_args

\* check.py:472-477: the Checker built from the document on the first read
\* of ConfigChecker.checker and kept by the cached property.
ConfigChecker_checker(cached, cfg) ==
    IF cached # None THEN cached
    ELSE <<"Checker", files_pattern, cfg.files_format>>

\* Two files, right and wrong for the section [format] version = 2.
FrameFiles ==
    {[EmptyFile EXCEPT !.full_format = f,
                       !.data_vars = ("v" :> Array("x", <<1, 1>>))] :
        f \in {"GRIB1", "GRIB2"}}

InitFrame ==
    /\ config \in WiredConfigs
    /\ paths \in PathLists(MaxPaths)
    /\ files \in [Range(paths) -> FrameFiles]
    /\ call = <<"checks_made", None, <<>>>>
    /\ errors = EmptyDict
    /\ raised = FALSE
    /\ NoRun

\* ConfigChecker.check(name) for a name that has a section.
check_with_section ==
    /\ call[1] = "checks_made" /\ Len(call[3]) < MaxChecks
    /\ \E name \in WiredChecks \cap DOMAIN config.sections :
          LET r == ConfigChecker_check_name(name, config, paths, files)
          IN  /\ config' = [config EXCEPT !.sections[name] =
                               config_args_after(Signature(name), @)]
              /\ call' = <<"checks_made", ConfigChecker_checker(call[2], config),
                           Append(call[3], <<name, r.raised>>)>>
              /\ errors' = r.errors
              /\ raised' = r.raised
    /\ UNCHANGED <<paths, files>>
    /\ UNCHANGED RunVars

\* ConfigChecker.check(name) for a name without a section: check.py:480
\* raises before ConfigChecker.checker is read.
check_without_section ==
    /\ call[1] = "checks_made" /\ Len(call[3]) < MaxChecks
    /\ \E name \in WiredChecks \ DOMAIN config.sections :
          LET r == ConfigChecker_check_name(name, config, paths, files)
          IN  /\ call' = <<"checks_made", call[2],
                           Append(call[3], <<name, r.raised>>)>>
              /\ errors' = r.errors
              /\ raised' = r.raised
    /\ UNCHANGED <<config, paths, files>>
    /\ UNCHANGED RunVars

NextFrame == check_with_section \/ check_without_section

SpecFrame == InitFrame /\ [][NextFrame]_vars

\* A step leaves the document and the Checker, once built, as they were.
FrameKept ==
    /\ config' = config
    /\ call[2] # None => call'[2] = call[2]

\* C29: no call of ConfigChecker.check, returning or raising, changes the
\* configuration document or the files_pattern and files_format of the
\* Checker, which are those of the document.
C29_ConfigurationUnchanged ==
    /\ [](call[2] # None => call[2] = <<"Checker", files_pattern, config.files_format>>)
    /\ [][FrameKept]_vars

\* A document with [format] and no version: a check that raised for want
\* of a section, then the format check, which returned, then both again.
C29_Witness ==
    /\ call[1] = "checks_made"
    /\ Len(call[3]) = 4
    /\ call[3][1] = <<"completeness", TRUE>>
    /\ call[3][2] = <<"format", FALSE>>
    /\ call[3][3] = <<"completeness", TRUE>>
    /\ call[3][4] = <<"format", FALSE>>
    /\ config.sections = ("format" :> EmptyDict)
    /\ call[2] = <<"Checker", files_pattern, "GRIB">>

-----------------------------------------------------------------------------
(* Checker.paths: the matched paths, resolved by the first check that     *)
(* needs them, while files appear and disappear between the checks.       *)

\* glob.glob(self.files_pattern) (check.py:116) over the files present.
glob(fs) == SelectSeq(AllPaths, LAMBDA path : path \in DOMAIN fs)

\* Mutation: the paths are resolved at every access.
Checker_paths_NoMemo(cached, fs) ==
    IF glob(fs) = <<>>
    THEN [raised |-> TRUE, paths |-> <<>>, cached |-> <<>>, globbed |-> TRUE]
    ELSE [raised |-> FALSE, paths |-> glob(fs), cached |-> <<>>, globbed |-> TRUE]

\* check.py:114-119, a cached_property: the value of the first access that
\* returns is kept in the instance, cached being that value and <<>> while
\* there is none; an access that raises keeps nothing.
Checker_paths(cached, fs) ==
    IF cached # <<>>
    THEN [raised |-> FALSE, paths |-> cached, cached |-> cached, globbed |-> FALSE]
    ELSE IF glob(fs) = <<>>
    THEN [raised |-> TRUE, paths |-> <<>>, cached |-> <<>>, globbed |-> TRUE]
    ELSE [raised |-> FALSE, paths |-> glob(fs), cached |-> glob(fs), globbed |-> TRUE]

\* The files that match the pattern at some time.
FileSystems ==
    {[p \in S |-> EmptyFile] : S \in SUBSET Range(SubSeq(AllPaths, 1, MaxPaths))}

\* paths is the value kept in the Checker, call the checks made so far.
InitPaths ==
    /\ config = ValidConfig
    /\ files \in FileSystems
    /\ paths = <<>>
    /\ call = <<"checks", <<>>>>
    /\ errors = EmptyDict
    /\ raised = FALSE
    /\ NoRun

\* A check whose method iterates self.paths_iterator (check.py:121-123) and
\* returns, and the deduplication test that reads self.checker.paths after
\* it (check.py:492).
CheckIterates ==
    /\ call[1] = "checks" /\ Len(call[2]) < MaxChecks
    /\ LET method == Checker_paths(paths, files)
           dedup == Checker_paths(method.cached, files)
       IN  /\ ~method.raised
           /\ paths' = dedup.cached
           /\ call' = <<"checks",
                        Append(call[2], [raised |-> FALSE,
                                         iterated |-> method.paths,
                                         dedup |-> dedup.paths,
                                         globbed |-> method.globbed])>>
           /\ raised' = FALSE
    /\ UNCHANGED <<config, files, errors>>
    /\ UNCHANGED RunVars

\* A check whose access to self.paths raises ValueError: no file matched.
CheckFindsNoMatch ==
    /\ call[1] = "checks" /\ Len(call[2]) < MaxChecks
    /\ LET method == Checker_paths(paths, files)
       IN  /\ method.raised
           /\ paths' = method.cached
           /\ call' = <<"checks",
                        Append(call[2], [raised |-> TRUE,
                                         iterated |-> <<>>,
                                         dedup |-> <<>>,
                                         globbed |-> method.globbed])>>
           /\ raised' = TRUE
    /\ UNCHANGED <<config, files, errors>>
    /\ UNCHANGED RunVars

\* Files that match the pattern are written or removed between two checks.
FilesChange ==
    /\ call[1] = "checks"
    /\ files' \in FileSystems \ {files}
    /\ UNCHANGED <<config, paths, call, errors, raised>>
    /\ UNCHANGED RunVars

NextPaths == CheckIterates \/ CheckFindsNoMatch \/ FilesChange

SpecPaths == InitPaths /\ [][NextPaths]_vars

\* The checks made so far that resolved the pattern themselves.
Resolutions == {k \in DOMAIN call[2] : call[2][k].globbed}

\* C16 as stated: the pattern is resolved at most once, every check and its
\* deduplication test see the same paths, and a check that found no match
\* raised before iterating.
C16_Original ==
    call[1] = "checks" =>
        /\ Cardinality(Resolutions) <= 1
        /\ \A j, k \in DOMAIN call[2] :
              call[2][j].iterated = call[2][k].iterated
        /\ \A k \in DOMAIN call[2] :
              /\ call[2][k].dedup = call[2][k].iterated
              /\ call[2][k].raised <=> call[2][k].iterated = <<>>

\* C16 amended: the pattern is resolved with a match at most once, and from
\* then on every check and its deduplication test see those paths without
\* resolving again; a resolution that matches nothing raises before the
\* check iterates and keeps nothing, so the next check resolves again; no
\* check iterates over zero files.
C16_MemoizedOnceMatched ==
    call[1] = "checks" =>
        /\ Cardinality({k \in Resolutions : ~call[2][k].raised}) <= 1
        /\ \A j, k \in DOMAIN call[2] :
              (j < k /\ ~call[2][j].raised) =>
                  /\ ~call[2][k].raised
                  /\ ~call[2][k].globbed
                  /\ call[2][k].iterated = call[2][j].iterated
        /\ \A k \in DOMAIN call[2] :
              /\ call[2][k].dedup = call[2][k].iterated
              /\ call[2][k].raised <=> call[2][k].iterated = <<>>
              /\ call[2][k].raised => call[2][k].globbed
              /\ ~call[2][k].raised => paths = call[2][k].iterated
        /\ paths = <<>> <=> \A k \in DOMAIN call[2] : call[2][k].raised

\* A check that found no match, then one file appears and is seen by the
\* second check, then a second file appears and the third check still sees
\* the first alone.
C16_Witness ==
    /\ call[1] = "checks"
    /\ Len(call[2]) = 3
    /\ call[2][1].raised
    /\ call[2][2].iterated = <<"f1">> /\ call[2][2].globbed
    /\ call[2][3].iterated = <<"f1">> /\ ~call[2][3].globbed
    /\ DOMAIN files = {"f1", "f2"}

-----------------------------------------------------------------------------
\* FileFormat.check_file_format called on its own (file_format.py).

\* config.py:15-24.
GRIB_EXTENSIONS == <<".grib", ".grb", ".grb1", ".grb2">>

MIN_GRIB_EDITION == 2

NETCDF_EXTENSIONS == <<".nc">>

MIN_NETCDF_EDITION == 4

\* A file name is its root and its extension, as posixpath.splitext cuts it.
FileNames ==
    {<<"test", ".nc">>, <<"test", ".NC">>, <<"test", ".grib">>,
     <<"test", ".grb">>, <<"test", ".grb1">>, <<"test", ".grb2">>,
     <<"foo", ".txt">>, <<"foo", "">>}

\* str.lower on the extensions drawn.
Lower(ext) == IF ext = ".NC" THEN ".nc" ELSE ext

\* The types known before the module is imported, for the extensions drawn.
DefaultTypes == ".txt" :> "text/plain"

\* file_format.py:24-27: the types added at import, strict and not.
StrictTypes ==
    [e \in DOMAIN DefaultTypes \cup Range(NETCDF_EXTENSIONS) |->
        IF e \in Range(NETCDF_EXTENSIONS) THEN "application/netcdf"
        ELSE DefaultTypes[e]]

NonStrictTypes == [e \in Range(GRIB_EXTENSIONS) |-> "application/x-grib"]

\* mimetypes.guess_type(filename, strict=False)[0]: the extension as given
\* and then lowercased, in the strict types and then in the others.
type_from_ext(filename) ==
    LET ext == filename[2]
    IN  IF ext \in DOMAIN StrictTypes THEN PyStr(StrictTypes[ext])
        ELSE IF Lower(ext) \in DOMAIN StrictTypes
        THEN PyStr(StrictTypes[Lower(ext)])
        ELSE IF ext \in DOMAIN NonStrictTypes THEN PyStr(NonStrictTypes[ext])
        ELSE IF Lower(ext) \in DOMAIN NonStrictTypes
        THEN PyStr(NonStrictTypes[Lower(ext)])
        ELSE None

is_grib(filename) == type_from_ext(filename) = PyStr("application/x-grib")

is_netcdf(filename) == type_from_ext(filename) = PyStr("application/netcdf")

\* The data models netCDF4 reports, as their characters.
DataModels ==
    {<<"N", "E", "T", "C", "D", "F", "3", "_", "C", "L", "A", "S", "S", "I", "C">>,
     <<"N", "E", "T", "C", "D", "F", "3", "_", "6", "4", "B", "I", "T", "_", "O", "F", "F", "S", "E", "T">>,
     <<"N", "E", "T", "C", "D", "F", "3", "_", "6", "4", "B", "I", "T", "_", "D", "A", "T", "A">>,
     <<"N", "E", "T", "C", "D", "F", "4", "_", "C", "L", "A", "S", "S", "I", "C">>,
     <<"N", "E", "T", "C", "D", "F", "4">>}

NETCDF == <<"N", "E", "T", "C", "D", "F">>

startswith(s, prefix) ==
    Len(s) >= Len(prefix) /\ SubSeq(s, 1, Len(prefix)) = prefix

\* s.split(sep)[0].
RECURSIVE SplitFirst(_, _)
SplitFirst(s, sep) ==
    IF s = <<>> \/ Head(s) = sep THEN <<>>
    ELSE <<Head(s)>> \o SplitFirst(Tail(s), sep)

\* s.replace(old, "").
RECURSIVE Removed(_, _)
Removed(s, old) ==
    IF s = <<>> THEN <<>>
    ELSE IF startswith(s, old)
    THEN Removed(SubSeq(s, Len(old) + 1, Len(s)), old)
    ELSE <<Head(s)>> \o Removed(Tail(s), old)

Digits == <<"0", "1", "2", "3", "4", "5", "6", "7", "8", "9">>

\* int(s) of a character string: its value, or -1 for the ValueError of a
\* string that is empty or holds anything but digits.
RECURSIVE IntValue(_, _)
IntValue(s, acc) ==
    IF s = <<>> THEN acc
    ELSE IntValue(Tail(s),
                  10 * acc + (CHOOSE d \in DOMAIN Digits : Digits[d] = Head(s)) - 1)

int(s) ==
    IF s = <<>> \/ \E k \in DOMAIN s : s[k] \notin Range(Digits) THEN -1
    ELSE IntValue(s, 0)

\* What a file holds: a first message with its identifier and edition, a
\* NetCDF dataset with its data model, or text.
GribContents == {<<"grib", identifier, edition>> :
                    identifier \in {"GRIB", "BUFR"}, edition \in 1..4}

NetcdfContents == {<<"netcdf", data_model>> : data_model \in DataModels}

check_file_format_AnyEdition(filename, content) ==
    IF is_grib(filename) \/ is_netcdf(filename) THEN "return"
    ELSE "FileFormatError"

\* file_format.py:51-76.
check_file_format(filename, content) ==
    IF is_grib(filename)
    THEN LET identifier == content[2]
             edition == content[3]
         IN  IF identifier # "GRIB" \/ edition < MIN_GRIB_EDITION
             THEN "FileFormatError"
             ELSE "return"
    ELSE IF is_netcdf(filename)
    THEN LET data_model == content[2]
             edition == Removed(SplitFirst(data_model, "_"), NETCDF)
         IN  IF ~startswith(data_model, NETCDF) THEN "FileFormatError"
             ELSE IF int(edition) = -1 THEN "ValueError"
             ELSE IF int(edition) < MIN_NETCDF_EDITION THEN "FileFormatError"
             ELSE "return"
    ELSE "FileFormatError"

\* One file under each name; a name of a GRIB or NetCDF type names a file
\* that eccodes or netCDF4 can open, any other name names any file.
InitFileFormat ==
    /\ config = ValidConfig
    /\ \E filename \in FileNames :
          /\ paths = <<filename>>
          /\ \E content \in GribContents \cup NetcdfContents \cup {<<"text">>} :
                /\ is_grib(filename) => content \in GribContents
                /\ is_netcdf(filename) => content \in NetcdfContents
                /\ files = (filename :> content)
    /\ call = <<"none">>
    /\ errors = EmptyDict
    /\ raised = FALSE
    /\ NoRun

\* file_format.py:43-49: the two properties read on one FileFormat.
file_types ==
    /\ NotCalled
    /\ call' = <<"file_types", is_grib(paths[1]), is_netcdf(paths[1])>>
    /\ UNCHANGED <<config, paths, files, errors, raised>>
    /\ UNCHANGED RunVars

\* file_format.py:51-76.
file_check_file_format ==
    /\ NotCalled
    /\ LET outcome == check_file_format(paths[1], files[paths[1]])
       IN  /\ call' = <<"check_file_format", outcome>>
           /\ raised' = (outcome # "return")
    /\ UNCHANGED <<config, paths, files, errors>>
    /\ UNCHANGED RunVars

NextFileFormat == file_types \/ file_check_file_format

SpecFileFormat == InitFileFormat /\ [][NextFileFormat]_vars

\* The edition a data model names.
EditionOf(data_model) ==
    IF startswith(data_model, NETCDF \o <<"3">>) THEN 3
    ELSE IF startswith(data_model, NETCDF \o <<"4">>) THEN 4
    ELSE 0

\* C17: check_file_format raises FileFormatError for a file name whose type
\* is neither GRIB nor NetCDF, for a GRIB file whose identifier is not GRIB
\* or whose edition is below 2, and for a NetCDF file whose data model does
\* not start with NETCDF or whose edition is below 4; it returns for GRIB of
\* edition 2 or more and for NetCDF of edition 4 or more; is_grib and
\* is_netcdf are never both true.
C17_FileFormat ==
    LET filename == paths[1]
        content == files[filename]
        ext == Lower(filename[2])
        grib == ext \in Range(GRIB_EXTENSIONS)
        netcdf == ext \in Range(NETCDF_EXTENSIONS)
    IN  /\ call[1] = "file_types" =>
              /\ ~(call[2] /\ call[3])
              /\ call[2] <=> grib
              /\ call[3] <=> netcdf
        /\ call[1] = "check_file_format" =>
              /\ raised <=> call[2] = "FileFormatError"
              /\ (~grib /\ ~netcdf) => raised
              /\ grib =>
                    (raised <=> (content[2] # "GRIB" \/ content[3] < 2))
              /\ netcdf =>
                    (raised <=> (~startswith(content[2], NETCDF)
                                    \/ EditionOf(content[2]) < 4))

\* A NetCDF file of the 64-bit offset variant of the classic format is
\* refused.
C17_Witness ==
    /\ call = <<"check_file_format", "FileFormatError">>
    /\ paths = << <<"test", ".nc">> >>
    /\ files[paths[1]] = <<"netcdf", <<"N", "E", "T", "C", "D", "F", "3", "_", "6", "4", "B", "I", "T", "_", "O", "F", "F", "S", "E", "T">>>>
    /\ raised

-----------------------------------------------------------------------------
\* The per-file checks called on two Checkers that match the same files and
\* iterate over them in two orders: glob.glob returns the matched paths in
\* the order of the directory listing (check.py:116).

\* The orders in which the paths ps can be listed.
Orders(ps) ==
    {order \in [DOMAIN ps -> Range(ps)] :
        \A j, k \in DOMAIN ps : j # k => order[j] # order[k]}

\* The files matched: a format, the attributes of v, and v with or without
\* a mask variable next to it.
OrderedDatasets ==
    {("v" :> Array("x", <<NaN, 1>>)) @@ (mask_name :> Array("x", <<NaN, 1>>)),
     ("v" :> Array("x", <<NaN, 1>>)) @@ (mask_name :> Array("x", <<1, 0>>)),
     ("v" :> Array("x", <<1, 1>>))}

OrderedFiles ==
    {[EmptyFile EXCEPT !.full_format = f, !.variable_attrs = a, !.data_vars = d] :
        f \in {"GRIB1", "GRIB2"},
        a \in {EmptyDict, ("v" :> ("a" :> PyStr("x")))},
        d \in OrderedDatasets}

InitOrder ==
    /\ config = [ValidConfig EXCEPT !.files_format = "GRIB"]
    /\ paths \in PathLists(MaxPaths)
    /\ files \in [Range(paths) -> OrderedFiles]
    /\ call = <<"none">>
    /\ errors = EmptyDict
    /\ raised = FALSE
    /\ NoRun

\* check.py:125-144, over paths and over another order of them.
check_format_in_order ==
    /\ NotCalled
    /\ \E version \in {None, PyInt(2)} :
       \E order \in Orders(paths) :
          LET r == Checker_check_format(paths, files, config.files_format, version)
              r2 == Checker_check_format(order, files, config.files_format, version)
          IN  /\ call' = <<"check_format", order, r2.raised, r2.errors, version>>
              /\ errors' = r.errors
              /\ raised' = r.raised
    /\ UNCHANGED <<config, paths, files>>
    /\ UNCHANGED RunVars

\* check.py:146-184, over paths and over another order of them.
check_variable_attributes_in_order ==
    /\ NotCalled
    /\ \E expected \in {("v" :> ("a" :> PyStr("x"))), ("v" :> ("a" :> PyStr("y")))} :
       \E order \in Orders(paths) :
          LET r == check_variable_attrs_or_sizes(paths, files, "variable_attrs",
                                                 expected)
              r2 == check_variable_attrs_or_sizes(order, files, "variable_attrs",
                                                  expected)
          IN  /\ call' = <<"check_variable_attributes", order, r2.raised,
                           r2.errors, expected>>
              /\ errors' = r.errors
              /\ raised' = r.raised
    /\ UNCHANGED <<config, paths, files>>
    /\ UNCHANGED RunVars

\* check.py:363-420, over paths and over another order of them.
check_completeness_in_order ==
    /\ NotCalled
    /\ \E mask_variable \in {None, PyStr(mask_name)} :
       \E variables \in {None, PyVars({"v"})} :
       \E order \in Orders(paths) :
          LET r == Checker_check_completeness(paths, files, mask_variable, None,
                                              variables, None)
              r2 == Checker_check_completeness(order, files, mask_variable, None,
                                               variables, None)
          IN  /\ call' = <<"check_completeness", order, r2.raised, r2.errors,
                           mask_variable, variables>>
              /\ errors' = r.errors
              /\ raised' = r.raised
    /\ UNCHANGED <<config, paths, files>>
    /\ UNCHANGED RunVars

NextOrder ==
    \/ check_format_in_order
    \/ check_variable_attributes_in_order
    \/ check_completeness_in_order

SpecOrder == InitOrder /\ [][NextOrder]_vars

\* The two calls end alike: both raise, or both return the same report.
SameReport ==
    /\ raised = call[3]
    /\ ~raised => errors = call[4]

\* C20: for the format, variable attributes and completeness checks, the
\* report over the matched paths is the same for every order in which the
\* paths are iterated.
C20_OrderIndependent ==
    call[1] \in {"check_format", "check_variable_attributes", "check_completeness"}
        => SameReport

\* What holds of the code: C20 for the format and variable attributes
\* checks, and for the completeness check called with the variables named
\* and without a mask.
C20_OrderIndependentWithoutFirstFileState ==
    (\/ call[1] \in {"check_format", "check_variable_attributes"}
     \/ call[1] = "check_completeness" /\ call[5] = None /\ call[6] # None)
        => SameReport

\* Two files holding v = [null, 1], the first with the mask [null, 1] and
\* the second with the mask [1, 0]: in this order nothing is reported, in
\* the other order v is reported for both files.
C20_Witness ==
    /\ call[1] = "check_completeness"
    /\ call[2] = <<"f2", "f1">>
    /\ call[5] = PyStr(mask_name) /\ call[6] = PyVars({"v"})
    /\ paths = <<"f1", "f2">>
    /\ ~raised /\ errors = EmptyDict
    /\ ~call[3] /\ DOMAIN call[4] = {"f1", "f2"}

-----------------------------------------------------------------------------
\* The per-file checks of Checker called on files that are right or wrong
\* in the respect each check reads.

\* Mutation: every matched path gets an entry, empty or not.
RECURSIVE GlobalLoop_KeepEmpty(_, _, _, _, _)
GlobalLoop_KeepEmpty(ps, fs, attr_name, expected, errs) ==
    IF ps = <<>> THEN errs
    ELSE LET path == Head(ps)
             error == check_attributes_or_sizes(expected, fs[path][attr_name], FALSE)
         IN  GlobalLoop_KeepEmpty(Tail(ps), fs, attr_name, expected,
                                  errs @@ (path :> PyDict(error)))

\* for path in self.paths_iterator: check.py:211-217.
RECURSIVE GlobalLoop(_, _, _, _, _)
GlobalLoop(ps, fs, attr_name, expected, errs) ==
    IF ps = <<>> THEN errs
    ELSE LET path == Head(ps)
             error == check_attributes_or_sizes(expected, fs[path][attr_name], FALSE)
         IN  GlobalLoop(Tail(ps), fs, attr_name, expected,
                        IF error # EmptyDict THEN errs @@ (path :> PyDict(error))
                        ELSE errs)

\* check.py:207-218; Checker.paths raises when nothing matched.
check_global_attrs_or_sizes(ps, fs, attr_name, expected) ==
    IF ps = <<>> THEN Raise
    ELSE Return(GlobalLoop(ps, fs, attr_name, expected, EmptyDict))

\* The respects in which a file can be wrong, one per check family.
Respects == {"format", "global", "variable", "data", "grid", "cf"}

\* A file that is wrong in the respects of the set wrong and right in the
\* others.
ReportFile(wrong) ==
    [ full_format |-> IF "format" \in wrong THEN "GRIB1" ELSE "GRIB2",
      global_attrs |-> IF "global" \in wrong THEN ("a" :> PyStr("y"))
                       ELSE ("a" :> PyStr("x")),
      global_sizes |-> IF "global" \in wrong THEN EmptyDict
                       ELSE ("a" :> PyInt(1)),
      variable_attrs |-> IF "variable" \in wrong THEN ("w" :> ("a" :> PyStr("x")))
                         ELSE ("v" :> ("a" :> PyStr("x"))),
      variable_sizes |-> IF "variable" \in wrong THEN ("v" :> ("a" :> PyInt(2)))
                         ELSE ("v" :> ("a" :> PyInt(1))),
      time |-> <<0>>,
      data_vars |-> ("v" :> IF "data" \in wrong THEN Array("x", <<NaN, 1>>)
                            ELSE Array("x", <<1, 1>>))
                       @@ ("w" :> Array("x", <<1, 1>>))
                       @@ (mask_name :> Array("x", <<1, 0>>)),
      griddes |-> IF "grid" \in wrong THEN <<>> ELSE << <<"xinc ", " 2">> >>,
      zaxisdes |-> IF "grid" \in wrong THEN << <<"yinc ", " ">> >>
                   ELSE << <<"xinc ", " 2">> >>,
      cf |-> [global |-> IF "cf" \in wrong
                         THEN [NoMessages EXCEPT !["ERROR"] = <<"e">>]
                         ELSE NoMessages,
              variables |-> EmptyDict] ]

ReportFiles ==
    {ReportFile(wrong) : wrong \in {{}, Respects} \cup {{r} : r \in Respects}}

InitReports ==
    /\ config = ValidConfig
    /\ paths \in PathLists(MaxPaths)
    /\ \E matched \in [Range(paths) -> ReportFiles] :
          files = matched @@ (mask_path :> ReportFile({}))
    /\ call = <<"none">>
    /\ errors = EmptyDict
    /\ raised = FALSE
    /\ NoRun

\* check.py:220-234.
check_global_attributes ==
    /\ NotCalled
    /\ \E expected \in Dicts({"a"}, {PyStr(""), PyStr("x")}) :
          LET r == check_global_attrs_or_sizes(paths, files, "global_attrs", expected)
          IN  /\ call' = <<"check_global_attributes", expected, "global_attrs">>
              /\ errors' = r.errors
              /\ raised' = r.raised
    /\ UNCHANGED <<config, paths, files>>
    /\ UNCHANGED RunVars

\* check.py:236-250.
check_global_dimensions ==
    /\ NotCalled
    /\ \E expected \in Dicts({"a"}, {PyStr(""), PyInt(1)}) :
          LET r == check_global_attrs_or_sizes(paths, files, "global_sizes", expected)
          IN  /\ call' = <<"check_global_dimensions", expected, "global_sizes">>
              /\ errors' = r.errors
              /\ raised' = r.raised
    /\ UNCHANGED <<config, paths, files>>
    /\ UNCHANGED RunVars

NextReports ==
    \/ check_format
    \/ check_global_attributes
    \/ check_global_dimensions
    \/ check_variable_attributes
    \/ check_variable_dimensions
    \/ check_completeness
    \/ check_completeness_with_mask
    \/ check_horizontal_resolution
    \/ check_vertical_resolution
    \/ check_cf_compliance

SpecReports == InitReports /\ [][NextReports]_vars

PerFileChecks ==
    {"check_format", "check_global_attributes", "check_global_dimensions",
     "check_variable_attributes", "check_variable_dimensions",
     "check_completeness", "check_spatial_resolution", "check_cf_compliance"}

\* The entry of a file is an empty mapping, an empty set or an empty string.
EmptyEntry(path) ==
    IF call[1] \in {"check_variable_attributes", "check_variable_dimensions"}
    THEN DOMAIN errors[path] = {}
    ELSE \/ errors[path] = PyStr("")
         \/ errors[path] = PyDict(EmptyDict)
         \/ errors[path] = PySet({})

\* The report of the same check made on one matched file alone, for the
\* checks whose entry for a file reads that file and the arguments only.
Alone(path) ==
    CASE call[1] = "check_format" ->
            Checker_check_format(<<path>>, files, config.files_format, call[2])
      [] call[1] \in {"check_global_attributes", "check_global_dimensions"} ->
            check_global_attrs_or_sizes(<<path>>, files, call[3], call[2])
      [] call[1] \in {"check_variable_attributes", "check_variable_dimensions"} ->
            check_variable_attrs_or_sizes(<<path>>, files, call[3], call[2])
      [] call[1] = "check_spatial_resolution" ->
            check_spatial_resolution(<<path>>, files, call[2], call[3])
      [] call[1] = "check_cf_compliance" ->
            Checker_check_cf_compliance(<<path>>, files, call[2])

-----------------------------------------------------------------------------
\* check_temporal_resolution called several times on one Checker, other
\* checks being called between (check.py:309-361).  paths is the value the
\* Checker keeps, call is <<"calls", times, made>>: the list times of the
\* last call of check_temporal_resolution and the calls made so far, each
\* with its arguments and how it ended.

\* Mutation: the list of the previous call is extended instead of a new one
\* being made.
times_at_entry_Kept(previous) == previous

\* check.py:337: times = [], a new list at every call.
times_at_entry(previous) == <<>>

\* The time coordinate of a file.
RepeatedFiles ==
    {[EmptyFile EXCEPT !.full_format = "GRIB2", !.time = tc] :
        tc \in {<<0>>, <<0, 1>>, <<2, 0>>}}

\* The arguments min, max and frequency of a call.
RepeatedArguments ==
    {<<None, None, None>>, <<Date(0), Date(1), Tick(1)>>, <<Date(1), None, Tick(2)>>}

InitRepeated ==
    /\ config = ValidConfig
    /\ paths = <<>>
    /\ \E matched \in PathLists(MaxPaths) :
          files \in [Range(matched) -> RepeatedFiles]
    /\ call = <<"calls", <<>>, <<>>>>
    /\ errors = EmptyDict
    /\ raised = FALSE
    /\ NoRun

\* A call of check_temporal_resolution on the Checker.
check_temporal_resolution_again ==
    /\ call[1] = "calls" /\ Len(call[3]) < MaxChecks
    /\ \E args \in RepeatedArguments :
          LET p == Checker_paths(paths, files)
              times == times_at_entry(call[2]) \o ConcatTimes(p.paths, files)
              r == IF p.raised THEN Raise
                   ELSE Return(TemporalErrors(SortTimes(times), args[1], args[2],
                                              args[3]))
          IN  /\ paths' = p.cached
              /\ call' = <<"calls", IF p.raised THEN call[2] ELSE times,
                           Append(call[3], <<"temporal_resolution", args,
                                             r.raised, r.errors>>)>>
              /\ errors' = r.errors
              /\ raised' = r.raised
    /\ UNCHANGED <<config, files>>
    /\ UNCHANGED RunVars

\* A call of check_format on the same Checker (check.py:125-144).
check_format_between ==
    /\ call[1] = "calls" /\ Len(call[3]) < MaxChecks
    /\ \E version \in {None, PyInt(1)} :
          LET p == Checker_paths(paths, files)
              r == Checker_check_format(p.paths, files, config.files_format, version)
          IN  /\ paths' = p.cached
              /\ call' = <<"calls", call[2],
                           Append(call[3], <<"format", <<version>>, r.raised,
                                             r.errors>>)>>
              /\ errors' = r.errors
              /\ raised' = r.raised
    /\ UNCHANGED <<config, files>>
    /\ UNCHANGED RunVars

NextRepeated == check_temporal_resolution_again \/ check_format_between

SpecRepeated == InitRepeated /\ [][NextRepeated]_vars

\* C30: two calls of check_temporal_resolution on one Checker with the
\* same min, max and frequency end alike, with equal reports, whatever was
\* called between them.
C30_Idempotent ==
    call[1] = "calls" =>
        \A j, k \in DOMAIN call[3] :
            (/\ call[3][j][1] = "temporal_resolution"
             /\ call[3][k][1] = "temporal_resolution"
             /\ call[3][j][2] = call[3][k][2]) =>
                /\ call[3][j][3] = call[3][k][3]
                /\ call[3][j][4] = call[3][k][4]

\* The timestamps 2, 0 and 0, 1 of two files checked against min 0, max 1
\* and step 1, a format check that reports both files, and the same
\* temporal check again: both report the max and the differences.
C30_Witness ==
    /\ call[1] = "calls"
    /\ Len(call[3]) = 3
    /\ call[3][1][1] = "temporal_resolution"
    /\ call[3][1][2] = <<Date(0), Date(1), Tick(1)>>
    /\ call[3][2][1] = "format"
    /\ DOMAIN call[3][2][4] = {"f1", "f2"}
    /\ call[3][3] = call[3][1]
    /\ DOMAIN call[3][1][4] = {"max", "frequency"}
    /\ files["f1"].time = <<2, 0>> /\ files["f2"].time = <<0, 1>>

=============================================================================
